---- MODULE Spec2Model ----
(***************************************************************************)
(* otel-http-logger: the Logger facade (src/logger.ts) and the OTLP        *)
(* backend (src/otel.ts), as found in src/unnamed/part_001.                *)
(*                                                                         *)
(* One logging tree is modelled: a root Logger constructed with one of the *)
(* three kinds of configuration (none, empty endpoint, a collector URL),   *)
(* the loggers derived from it by newContext, and a fixed number of        *)
(* callers ("tasks"), each of which performs one withLogger(fn) or one     *)
(* flush().  JavaScript runs every callback to its next await without      *)
(* interruption, so each action below is one such synchronous segment.     *)
(* A step that only settles a promise and touches no shared state (fn      *)
(* returning or raising) is taken together with the continuation it wakes. *)
(***************************************************************************)
EXTENDS Integers, Sequences, FiniteSets, TLC

\* ------------------------------------------------------------------ bounds
MaxCalls == 2        \* level-method calls made by callers (outside withLogger's own error())
MaxTasks == 2        \* withLogger()/flush() invocations
MaxLoggers == 3      \* Logger instances (the root and those newContext derives)
MaxClockMs == 1      \* Date.now() returns EpochMs + 0 .. EpochMs + MaxClockMs
MaxHexLength == 5    \* generateRandomHexString(0) .. generateRandomHexString(MaxHexLength)

\* --------------------------------------------------------------- constants
maxRetries == 3      \* OtelBackend.maxRetries
retryDelay == 1000   \* OtelBackend.retryDelay
NsPerMs == 1000000   \* createLogRecord: Date.now() * 1000000
DoubleUlp == 256     \* spacing of IEEE-754 doubles in [2^60, 2^61)

Tasks == 1 .. MaxTasks
NoScope == 0
NoBackend == 0
NoLogger == 0
NoError == "none"
Errors == {"E1", "E2"}          \* the values an fn may raise
Url == "https://collector/v1/logs"
ContextNames == {"a", "b"}
LogLevel == {"DEBUG", "INFO", "WARN", "ERROR"}
ConsoleMethods == {"debug", "info", "warn", "error"}

\* ----------------------------------------------------------- JS numbers
(***************************************************************************)
(* A JS number is an IEEE-754 double.  Date.now() is about 1.7e12 and      *)
(* Date.now() * 1000000 about 1.7e18, which lies in [2^60, 2^61) for every *)
(* date from 2006 to 2043: there the doubles are the multiples of 256.     *)
(* A number is held as [e, n], standing for e * EpochNs + n, where         *)
(* EpochNs = EpochMs * 1000000 and EpochMs is a clock reading that is a    *)
(* multiple of 8 (such as 1762000000000), so that EpochNs is a double with *)
(* an even significand.  e = 0 holds the small numbers (all below 2^53,    *)
(* exact); n stays far below EpochNs.                                      *)
(***************************************************************************)
Num(e, n) == [e |-> e, n |-> n]

NumLeq(a, b) == a.e < b.e \/ (a.e = b.e /\ a.n <= b.n)

NumLess(a, b) == a.e < b.e \/ (a.e = b.e /\ a.n < b.n)

\* round to nearest, ties to even, on the grid of multiples of DoubleUlp
RoundUlp(n) ==
    LET q == n \div DoubleUlp
        r == n % DoubleUlp
    IN  IF 2 * r < DoubleUlp THEN q * DoubleUlp
        ELSE IF 2 * r > DoubleUlp THEN (q + 1) * DoubleUlp
        ELSE IF q % 2 = 0 THEN q * DoubleUlp
        ELSE (q + 1) * DoubleUlp

\* the double nearest to the real number x
ToDouble(x) == IF x.e = 0 THEN x ELSE Num(x.e, RoundUlp(x.n))

\* the JS expression  a * k  for a small integer constant k
NumTimes(a, k) == ToDouble(Num(a.e, a.n * k))

\* the JS expression  a + k
NumPlus(a, k) == ToDouble(Num(a.e, a.n + k))

\* Date.now(): a clock reading in milliseconds, dm past EpochMs
DateNow(dm) == Num(1, dm)

\* Number.prototype.toString: the shortest decimal that reads back as the
\* same double, held as the number that decimal denotes.  Every double the
\* model builds lies within DoubleUlp / 2 of a whole number of milliseconds,
\* whose decimal is the shortest.
NumberToString(x) ==
    IF x.e = 0 THEN x
    ELSE Num(x.e, ((x.n + NsPerMs \div 2) \div NsPerMs) * NsPerMs)

\* ------------------------------------------------------------------ state
VARIABLES
    loggers,      \* the Logger instances, in order of construction
    backends,     \* the OtelBackend instances, in order of construction
    console,      \* the console methods the latest step wrote a line through
    delivered,    \* the batches the collector answered with 2xx, in order
    calls,        \* level-method calls made so far (the identity of a record)
    overlapped,   \* history: some flush() began while another was in flight
    pc,           \* where each task stands
    self,         \* the Logger a task called withLogger()/flush() on
    phase,        \* "try" / "catch" block of withLogger, "direct" for flush()
    fnError,      \* what the task's fn raised, NoError if it returned
    caught,       \* the error bound by withLogger's catch block
    queue,        \* OtelBackend.flush's local copy of the queue (the batch)
    retries,      \* OtelBackend.flush's local retry counter
    posts,        \* fetch() calls (POST requests) of the task's flush so far
    result,       \* how the task's flush ended
    thrown,       \* the error that escaped the task's flush, NoError if none
    flushes,      \* flush() calls the task's withLogger()/flush() has made
    outcome,      \* how the task's call settled
    hasWarnedNoContext,   \* the module's flag of the same name
    warnings,     \* history: 'No logger found' warnings written so far
    got,          \* what the latest getCurrentLogger()/createLogger() returned
    outer,        \* history: the scope whose fn called the task's withLogger()
    hex,          \* the latest call of one of the identifier generators
    timer         \* the delay of the setTimeout a task's flush awaits, 0 if none

\* the ambient slot's state and the history of its use
ambient == <<hasWarnedNoContext, warnings, got, outer>>

vars == <<loggers, backends, console, delivered, calls, overlapped, pc, self,
          phase, fnError, caught, queue, retries, posts, result, thrown,
          flushes, outcome, hasWarnedNoContext, warnings, got, outer, hex,
          timer>>

\* ------------------------------------------------------------- OtelBackend
\* the case for WARN is missing
mapLogLevelToSeverityNumberNoWarn(level) ==
    CASE level = "DEBUG" -> 5
      [] level = "INFO" -> 9
      [] level = "ERROR" -> 17
      [] OTHER -> 9

mapLogLevelToSeverityNumber(level) ==
    CASE level = "DEBUG" -> 5
      [] level = "INFO" -> 9
      [] level = "WARN" -> 13
      [] level = "ERROR" -> 17
      [] OTHER -> 9

\* Math.ceil(length / 2)
HalfCeil(length) == (length + 1) \div 2

HexDigits == <<"0", "1", "2", "3", "4", "5", "6", "7", "8", "9",
               "a", "b", "c", "d", "e", "f">>

\* byte.toString(16): no leading zero; a string is the sequence of its
\* characters
toString16(byte) ==
    IF byte < 16 THEN <<HexDigits[byte + 1]>>
    ELSE <<HexDigits[(byte \div 16) + 1], HexDigits[(byte % 16) + 1]>>

\* the string is left as it is
padStartNone(str, targetLength, padString) == str

\* String.prototype.padStart with a one-character padString
RECURSIVE padStart(_, _, _)
padStart(str, targetLength, padString) ==
    IF Len(str) >= targetLength THEN str
    ELSE padStart(<<padString>> \o str, targetLength, padString)

\* Array.from(bytes).map(byte => ...).join('')
RECURSIVE HexOfBytes(_)
HexOfBytes(bytes) ==
    IF bytes = <<>> THEN <<>>
    ELSE padStart(toString16(Head(bytes)), 2, "0") \o HexOfBytes(Tail(bytes))

\* str.substring(0, end) for 0 <= end
substring(str, end) == SubSeq(str, 1, IF end < Len(str) THEN end ELSE Len(str))

\* generateRandomHexString(length), bytes being the random bytes drawn
generateRandomHexString(length, bytes) == substring(HexOfBytes(bytes), length)

\* no generator has been called
NoHex == [fn |-> "none", length |-> 0, bytes |-> <<>>, string |-> <<>>,
          returned |-> TRUE]

\* generateTraceId() / generateSpanId(): the identifier is random; it is
\* held as the name of the draw that produced it (the k-th constructor's, or
\* the one made for record id), so that equal names are equal identifiers
generateTraceId(k) == <<"trace", k>>

generateSpanId(kind, k) == <<"span", kind, k>>

\* String.prototype.toLowerCase on the names of the levels
toLowerCase(level) ==
    CASE level = "DEBUG" -> "debug"
      [] level = "INFO" -> "info"
      [] level = "WARN" -> "warn"
      [] level = "ERROR" -> "error"

\* a JS object with string keys is held as a function on its keys
EmptyObject == [k \in {} |-> ""]

\* the object literal { ...a, ...b }: a later key replaces an earlier one
Spread(a, b) ==
    [k \in DOMAIN a \cup DOMAIN b |-> IF k \in DOMAIN b THEN b[k] ELSE a[k]]

\* { 'Content-Type': 'application/json' }
ContentTypeJson == [k \in {"Content-Type"} |-> "application/json"]

\* new OtelBackend(config), the k-th backend constructed; configHeaders is
\* history the program does not hold: the headers the caller configured
NewOtelBackend(config, k) ==
    [endpoint |-> config.endpoint,
     headers |-> Spread(ContentTypeJson, config.headers),
     configHeaders |-> config.headers,
     serviceName |-> config.serviceName,
     environment |-> config.environment,
     parentTraceId |-> generateTraceId(k),
     parentSpanId |-> generateSpanId("backend", k),
     logQueue |-> <<>>,
     lastTimestamp |-> Num(0, 0)]

\* ------------------------------------------------------------- JS values
\* the values a caller puts into an attributes object
JsString(str) == [type |-> "string", str |-> str]

JsNumber(n) == [type |-> "number", n |-> n]

JsBoolean(b) == [type |-> "boolean", b |-> b]

JsUndefined == [type |-> "undefined"]

JsNull == [type |-> "null"]

JsArray(items) == [type |-> "array", items |-> items]

\* an object is the sequence of its <<key, value>> entries, in key order
JsObject(entries) == [type |-> "object", entries |-> entries]

\* the typeof operator
typeof(value) ==
    IF value.type \in {"null", "array", "object"} THEN "object" ELSE value.type

Digits == <<"0", "1", "2", "3", "4", "5", "6", "7", "8", "9">>

\* the decimal numeral of a natural number
RECURSIVE Decimal(_)
Decimal(n) ==
    IF n < 10 THEN Digits[n + 1]
    ELSE Decimal(n \div 10) \o Digits[(n % 10) + 1]

\* the strings of a sequence joined with sep between them
RECURSIVE JoinWith(_, _)
JoinWith(strs, sep) ==
    IF strs = <<>> THEN ""
    ELSE IF Len(strs) = 1 THEN strs[1]
    ELSE strs[1] \o sep \o JoinWith(Tail(strs), sep)

\* String(value)
RECURSIVE String(_)
String(value) ==
    CASE value.type = "string" -> value.str
      [] value.type = "number" -> Decimal(value.n)
      [] value.type = "boolean" -> IF value.b THEN "true" ELSE "false"
      [] value.type = "undefined" -> "undefined"
      [] value.type = "null" -> "null"
      [] value.type = "array" ->
            JoinWith([i \in 1 .. Len(value.items) |->
                         IF value.items[i].type \in {"null", "undefined"}
                         THEN "" ELSE String(value.items[i])], ",")
      [] value.type = "object" -> "[object Object]"

\* the entries of a sequence that are not of type undefined
RECURSIVE Defined(_)
Defined(entries) ==
    IF entries = <<>> THEN <<>>
    ELSE IF Head(entries)[2].type = "undefined" THEN Defined(Tail(entries))
    ELSE <<Head(entries)>> \o Defined(Tail(entries))

\* JSON.stringify(value) for a value that is not undefined; strings are
\* taken to hold no character that needs escaping
RECURSIVE JSONstringify(_)
JSONstringify(value) ==
    CASE value.type = "string" -> "\"" \o value.str \o "\""
      [] value.type = "number" -> Decimal(value.n)
      [] value.type = "boolean" -> IF value.b THEN "true" ELSE "false"
      [] value.type = "null" -> "null"
      [] value.type = "array" ->
            "[" \o JoinWith([i \in 1 .. Len(value.items) |->
                                IF value.items[i].type = "undefined" THEN "null"
                                ELSE JSONstringify(value.items[i])], ",")
                \o "]"
      [] value.type = "object" ->
            LET entries == Defined(value.entries)
            IN  "{" \o JoinWith([i \in 1 .. Len(entries) |->
                                    "\"" \o entries[i][1] \o "\":"
                                        \o JSONstringify(entries[i][2])], ",")
                    \o "}"

\* every value is converted with String()
AttrValueToString(value) == String(value)

\* `typeof value === 'object' && value !== null ? JSON.stringify(value)
\*  : String(value)`
AttrValue(value) ==
    IF typeof(value) = "object" /\ value # JsNull THEN JSONstringify(value)
    ELSE String(value)

\* an attributes object that was not passed, or {}
NoAttributes == <<>>

\* obj[key] = value: the key keeps its place if the object has it already
Assign(obj, key, value) ==
    IF \E i \in 1 .. Len(obj) : obj[i][1] = key
    THEN [i \in 1 .. Len(obj) |-> IF obj[i][1] = key THEN <<key, value>> ELSE obj[i]]
    ELSE Append(obj, <<key, value>>)

\* one entry of a record's attributes
Attribute(key, stringValue) == [key |-> key, stringValue |-> stringValue]

\* `Object.entries(attributes).forEach(...)`: the entries pushed for the
\* caller's attributes (an object is the sequence of its entries)
CustomAttributes(attributes) ==
    [i \in 1 .. Len(attributes) |->
        Attribute(attributes[i][1], AttrValue(attributes[i][2]))]

\* parent.id is added to the root span's record too
LogAttributesAlwaysParent(b, level, attributes, isParentSpan) ==
    <<Attribute("level", toLowerCase(level)),
      Attribute("service.name", b.serviceName),
      Attribute("environment", b.environment),
      Attribute("parent.id", b.parentSpanId)>>
    \o CustomAttributes(attributes)

\* the attributes createLogRecord builds: the three built-in ones, parent.id
\* unless the record is the root span's, then the caller's
LogAttributes(b, level, attributes, isParentSpan) ==
    <<Attribute("level", toLowerCase(level)),
      Attribute("service.name", b.serviceName),
      Attribute("environment", b.environment)>>
    \o (IF ~isParentSpan THEN <<Attribute("parent.id", b.parentSpanId)>>
        ELSE <<>>)
    \o CustomAttributes(attributes)

\* the timestamp createLogRecord assigns when Date.now() reads EpochMs + dm
NextTimestamp(lastTimestamp, dm) ==
    LET now == NumTimes(DateNow(dm), NsPerMs)
    IN  IF NumLeq(now, lastTimestamp) THEN NumPlus(lastTimestamp, 1) ELSE now

\* the record's span id becomes the transport's
createLogRecordMovesSpan(b, level, message, attributes, isParentSpan, dm, tag) ==
    LET now == NextTimestamp(b.lastTimestamp, dm)
        spanId == IF isParentSpan THEN b.parentSpanId
                  ELSE generateSpanId("record", tag.id)
        logRecord == [timestamp |-> NumberToString(now),
                      observedTimestamp |-> NumberToString(now),
                      severityNumber |-> mapLogLevelToSeverityNumber(level),
                      severityText |-> level,
                      body |-> message,
                      traceId |-> b.parentTraceId,
                      spanId |-> spanId,
                      attributes |-> LogAttributes(b, level, attributes,
                                                   isParentSpan),
                      id |-> tag.id,
                      scope |-> tag.scope,
                      path |-> tag.path,
                      error |-> tag.error,
                      passed |-> tag.passed,
                      kept |-> tag.kept,
                      given |-> attributes,
                      root |-> isParentSpan]
    IN  [b EXCEPT !.lastTimestamp = now,
                  !.parentSpanId = spanId,
                  !.logQueue = Append(@, logRecord)]

\* OtelBackend.createLogRecord: the backend after the call.  tag is history
\* the program does not read: the record's identity id (its object identity
\* in JS), the withLogger call scope whose fn made it, and the context names
\* path of the logger it was logged through, the error value and the
\* attributes object its caller passed (passed) and that object as it is after
\* the call (kept); given and root remember attributes and isParentSpan.
createLogRecord(b, level, message, attributes, isParentSpan, dm, tag) ==
    LET now == NextTimestamp(b.lastTimestamp, dm)
        spanId == IF isParentSpan THEN b.parentSpanId
                  ELSE generateSpanId("record", tag.id)
        logRecord == [timestamp |-> NumberToString(now),
                      observedTimestamp |-> NumberToString(now),
                      severityNumber |-> mapLogLevelToSeverityNumber(level),
                      severityText |-> level,
                      body |-> message,
                      traceId |-> b.parentTraceId,
                      spanId |-> spanId,
                      attributes |-> LogAttributes(b, level, attributes,
                                                   isParentSpan),
                      id |-> tag.id,
                      scope |-> tag.scope,
                      path |-> tag.path,
                      error |-> tag.error,
                      passed |-> tag.passed,
                      kept |-> tag.kept,
                      given |-> attributes,
                      root |-> isParentSpan]
    IN  [b EXCEPT !.lastTimestamp = now,
                  !.logQueue = Append(@, logRecord)]

\* OtelBackend.getTraceId
getTraceId(b) == b.parentTraceId

\* OtelBackend.getSpanId
getSpanId(b) == b.parentSpanId

\* the endpoint is not looked at before the fetch
SkipsSendingNever(endpoint) == FALSE

\* the fetch of one attempt: `if (!this.endpoint) return` comes first
SkipsSending(endpoint) == endpoint = ""

\* the loop stops one pass early
LoopContinuesShort(success, n) == ~success /\ n < maxRetries

\* success does not end the loop
LoopContinuesDespiteSuccess(success, n) == n <= maxRetries

\* `while (!success && retries <= this.maxRetries)`
LoopContinues(success, n) == ~success /\ n <= maxRetries

\* the catch block never gives up
RetriesExhaustedNever(n) == FALSE

\* `if (retries > this.maxRetries)` in the catch block
RetriesExhausted(n) == n > maxRetries

\* the batch of a flush that gives up is discarded
RequeueDrops(batch, logQueue) == logQueue

\* the undelivered batch is put back behind the records enqueued meanwhile
RequeueBehind(batch, logQueue) == logQueue \o batch

\* `this.logQueue = [...queue, ...this.logQueue]`
Requeue(batch, logQueue) == batch \o logQueue

\* one pass of the try block up to its await, the batch being taken already:
\* where the flush goes, the console lines written, the fetch() calls made
Attempt(endpoint) ==
    IF SkipsSending(endpoint)
    THEN [pc |-> "returned", result |-> "skipped", lines |-> <<"info">>, fetch |-> 0]
    ELSE [pc |-> "fetch", result |-> "pending", lines |-> <<>>, fetch |-> 1]

\* the batch is taken but the live queue is not reset
FlushStartKeepsQueue(bs, bi) ==
    IF bi = NoBackend
    THEN [backends |-> bs, pc |-> "returned", queue |-> <<>>,
          result |-> "noBackend", lines |-> <<>>, fetch |-> 0]
    ELSE IF Len(bs[bi].logQueue) = 0
    THEN [backends |-> bs, pc |-> "returned", queue |-> <<>>,
          result |-> "empty", lines |-> <<>>, fetch |-> 0]
    ELSE LET a == Attempt(bs[bi].endpoint)
         IN  [backends |-> bs,
              pc |-> IF LoopContinues(FALSE, 0) THEN a.pc ELSE "returned",
              queue |-> bs[bi].logQueue,
              result |-> a.result, lines |-> a.lines, fetch |-> a.fetch]

\* the check for an empty queue is missing
FlushStartNoEmptyCheck(bs, bi) ==
    IF bi = NoBackend
    THEN [backends |-> bs, pc |-> "returned", queue |-> <<>>,
          result |-> "noBackend", lines |-> <<>>, fetch |-> 0]
    ELSE LET a == Attempt(bs[bi].endpoint)
         IN  [backends |-> [bs EXCEPT ![bi].logQueue = <<>>],
              pc |-> IF LoopContinues(FALSE, 0) THEN a.pc ELSE "returned",
              queue |-> bs[bi].logQueue,
              result |-> a.result, lines |-> a.lines, fetch |-> a.fetch]

\* OtelBackend.flush up to its first await (or its return), on backend bi of
\* bs; Logger.flush's `this.otelBackend?.flush()` makes no call without a
\* backend
FlushStart(bs, bi) ==
    IF bi = NoBackend
    THEN [backends |-> bs, pc |-> "returned", queue |-> <<>>,
          result |-> "noBackend", lines |-> <<>>, fetch |-> 0]
    ELSE IF Len(bs[bi].logQueue) = 0
    THEN [backends |-> bs, pc |-> "returned", queue |-> <<>>,
          result |-> "empty", lines |-> <<>>, fetch |-> 0]
    ELSE LET a == Attempt(bs[bi].endpoint)
         IN  [backends |-> [bs EXCEPT ![bi].logQueue = <<>>],
              pc |-> IF LoopContinues(FALSE, 0) THEN a.pc ELSE "returned",
              queue |-> bs[bi].logQueue,
              result |-> a.result, lines |-> a.lines, fetch |-> a.fetch]

\* the catch block throws the error of the last attempt once it has given up
FlushCatchRethrows(b, batch, n) ==
    IF RetriesExhausted(n + 1)
    THEN [logQueue |-> Requeue(batch, b.logQueue), retries |-> n + 1,
          wait |-> FALSE, delay |-> 0, result |-> "abandoned",
          lines |-> <<"error">>, thrown |-> "FetchError"]
    ELSE [logQueue |-> b.logQueue, retries |-> n + 1,
          wait |-> TRUE, delay |-> retryDelay * (n + 1), result |-> "pending",
          lines |-> <<"warn">>, thrown |-> NoError]

\* every backoff lasts retryDelay
FlushCatchFixedDelay(b, batch, n) ==
    IF RetriesExhausted(n + 1)
    THEN [logQueue |-> Requeue(batch, b.logQueue), retries |-> n + 1,
          wait |-> FALSE, delay |-> 0, result |-> "abandoned",
          lines |-> <<"error">>, thrown |-> NoError]
    ELSE [logQueue |-> b.logQueue, retries |-> n + 1,
          wait |-> TRUE, delay |-> retryDelay, result |-> "pending",
          lines |-> <<"warn">>, thrown |-> NoError]

\* the batch is put back after every failed attempt, not only the last
FlushCatchRequeuesEarly(b, batch, n) ==
    IF RetriesExhausted(n + 1)
    THEN [logQueue |-> Requeue(batch, b.logQueue), retries |-> n + 1,
          wait |-> FALSE, delay |-> 0, result |-> "abandoned",
          lines |-> <<"error">>, thrown |-> NoError]
    ELSE [logQueue |-> Requeue(batch, b.logQueue), retries |-> n + 1,
          wait |-> TRUE, delay |-> retryDelay * (n + 1), result |-> "pending",
          lines |-> <<"warn">>, thrown |-> NoError]

\* the catch block of OtelBackend.flush after a failed attempt, the retry
\* counter being n before it: the backend's queue afterwards, the console
\* lines, and whether the flush now awaits the backoff timer and for how
\* many milliseconds
FlushCatch(b, batch, n) ==
    IF RetriesExhausted(n + 1)
    THEN [logQueue |-> Requeue(batch, b.logQueue), retries |-> n + 1,
          wait |-> FALSE, delay |-> 0, result |-> "abandoned",
          lines |-> <<"error">>, thrown |-> NoError]
    ELSE [logQueue |-> b.logQueue, retries |-> n + 1,
          wait |-> TRUE, delay |-> retryDelay * (n + 1), result |-> "pending",
          lines |-> <<"warn">>, thrown |-> NoError]

\* ------------------------------------------------------------------ Logger
NoConfig == [given |-> FALSE]

\* a configuration whose headers are {}
Config(endpoint, serviceName, environment) ==
    [given |-> TRUE, endpoint |-> endpoint, headers |-> EmptyObject,
     serviceName |-> serviceName, environment |-> environment]

\* the same configuration with the headers the caller supplies
WithHeaders(config, headers) == [config EXCEPT !.headers = headers]

\* the headers a caller configures: none, a bearer token, a content type of
\* its own, both
CallerHeaders ==
    {EmptyObject,
     [k \in {"Authorization"} |-> "Bearer token"],
     [k \in {"Content-Type"} |-> "text/plain"],
     [k \in {"Authorization", "Content-Type"} |->
         IF k = "Authorization" THEN "Bearer token" ELSE "application/json"]}

RootConfigs == {NoConfig} \cup {Config(e, "svc", "prod") : e \in {"", Url}}

\* the constructor builds a backend whether or not it is given a config
NewLoggerAlwaysTransport(config, contextPrefix, bs) ==
    LET cfg == IF config.given THEN config
               ELSE Config("", "console-logger", "development")
    IN  [logger |-> [otelBackend |-> Len(bs) + 1,
                     serviceName |-> cfg.serviceName,
                     environment |-> cfg.environment,
                     contextPrefix |-> contextPrefix,
                     path |-> <<>>],
         backends |-> Append(bs, NewOtelBackend(cfg, Len(bs) + 1)),
         lines |-> IF contextPrefix = <<>> THEN <<"info">> ELSE <<>>]

\* the constructor builds no backend for an empty endpoint
NewLoggerNoTransportOnEmpty(config, contextPrefix, bs) ==
    [logger |-> [otelBackend |-> IF config.given /\ config.endpoint # ""
                                 THEN Len(bs) + 1 ELSE NoBackend,
                 serviceName |-> IF config.given THEN config.serviceName
                                 ELSE "console-logger",
                 environment |-> IF config.given THEN config.environment
                                 ELSE "development",
                 contextPrefix |-> contextPrefix,
                 path |-> <<>>],
     backends |-> IF config.given /\ config.endpoint # ""
                  THEN Append(bs, NewOtelBackend(config, Len(bs) + 1)) ELSE bs,
     lines |-> IF contextPrefix = <<>> THEN <<"info">> ELSE <<>>]

\* new Logger(config, contextPrefix), the backends constructed so far being
\* bs: the instance, the backends afterwards, the console lines written.
\* path is history the program does not hold: the names given to the
\* newContext calls that led to the instance.
NewLogger(config, contextPrefix, bs) ==
    IF config.given
    THEN [logger |-> [otelBackend |-> Len(bs) + 1,
                      serviceName |-> config.serviceName,
                      environment |-> config.environment,
                      contextPrefix |-> contextPrefix,
                      path |-> <<>>],
          backends |-> Append(bs, NewOtelBackend(config, Len(bs) + 1)),
          lines |-> IF contextPrefix = <<>> THEN <<"info">> ELSE <<>>]
    ELSE [logger |-> [otelBackend |-> NoBackend,
                      serviceName |-> "console-logger",
                      environment |-> "development",
                      contextPrefix |-> contextPrefix,
                      path |-> <<>>],
          backends |-> bs,
          lines |-> IF contextPrefix = <<>> THEN <<"info">> ELSE <<>>]

\* Logger.formatMessage; a string is the sequence of its pieces
formatMessage(contextPrefix, message) ==
    IF contextPrefix # <<>>
    THEN <<"[">> \o contextPrefix \o <<"] ">> \o message
    ELSE message

\* every level method writes through console.info
ConsoleMethodInfo(level) == "info"

\* the console method each level method writes to
ConsoleMethod(level) ==
    CASE level = "DEBUG" -> "debug"
      [] level = "INFO" -> "info"
      [] level = "WARN" -> "warn"
      [] level = "ERROR" -> "error"

\* `this.otelBackend?.createLogRecord(level, formattedMessage, ...)` of the
\* level methods of logger lg: the backends afterwards
LoggerRecord(bs, lg, level, message, attributes, dm, tag) ==
    IF lg.otelBackend = NoBackend THEN bs
    ELSE [bs EXCEPT ![lg.otelBackend] =
             createLogRecord(@, level, formatMessage(lg.contextPrefix, message),
                             attributes, FALSE, dm,
                             [id |-> tag.id, scope |-> tag.scope,
                              path |-> lg.path, error |-> tag.error,
                              passed |-> tag.passed, kept |-> tag.kept])]

\* an Error object is truthy: `if (error)` asks whether one was passed (the
\* error values here are Error objects, NoError standing for none passed)
Supplied(e) == e # NoError

\* the name, message and stack of the Error object e
ErrorProperty(e, property) ==
    CASE property = "name" -> JsString("Error")
      [] property = "message" -> JsString(e \o " happened")
      [] property = "stack" -> JsString("Error: " \o e \o " happened at fn")

\* the three names are set whether or not an error was passed
ErrorAttributesAlways(attributes, e) ==
    [errorAttributes |->
         Assign(Assign(Assign(attributes,
             "errorName", IF Supplied(e) THEN ErrorProperty(e, "name") ELSE JsUndefined),
             "errorMessage", IF Supplied(e) THEN ErrorProperty(e, "message") ELSE JsUndefined),
             "errorStack", IF Supplied(e) THEN ErrorProperty(e, "stack") ELSE JsUndefined),
     attributes |-> attributes]

\* Logger.error's `const errorAttributes = { ...attributes }` and the three
\* assignments under `if (error)`: the object passed on to createLogRecord,
\* and the caller's object as it is afterwards
ErrorAttributes(attributes, e) ==
    LET copy == attributes
        errorAttributes ==
            IF Supplied(e)
            THEN Assign(Assign(Assign(copy,
                     "errorName", ErrorProperty(e, "name")),
                     "errorMessage", ErrorProperty(e, "message")),
                     "errorStack", ErrorProperty(e, "stack"))
            ELSE copy
    IN  [errorAttributes |-> errorAttributes, attributes |-> attributes]

\* the constructor is always given a configuration, and the transport it
\* builds is replaced only when the parent has one
newContextAlwaysConfig(lg, context, bs) ==
    LET newContextPrefix ==
            IF lg.contextPrefix # <<>>
            THEN lg.contextPrefix \o <<":", context>>
            ELSE <<context>>
        made == NewLogger(Config("", lg.serviceName, lg.environment),
                          newContextPrefix, bs)
    IN  IF lg.otelBackend = NoBackend
        THEN [made EXCEPT !.logger.path = Append(lg.path, context)]
        ELSE [made EXCEPT !.logger.otelBackend = lg.otelBackend,
                          !.logger.path = Append(lg.path, context)]

\* the configuration passed to the derived logger's constructor is applied
\* to the transport the loggers share
newContextReconfigures(lg, context, bs) ==
    LET newContextPrefix ==
            IF lg.contextPrefix # <<>>
            THEN lg.contextPrefix \o <<":", context>>
            ELSE <<context>>
        made == NewLogger(IF lg.otelBackend # NoBackend
                          THEN Config("", lg.serviceName, lg.environment)
                          ELSE NoConfig,
                          newContextPrefix, bs)
    IN  IF lg.otelBackend = NoBackend
        THEN [made EXCEPT !.logger.path = Append(lg.path, context)]
        ELSE [made EXCEPT !.logger.otelBackend = lg.otelBackend,
                          !.logger.path = Append(lg.path, context),
                          !.backends[lg.otelBackend].endpoint = "",
                          !.backends[lg.otelBackend].headers =
                              Spread(ContentTypeJson, EmptyObject)]

\* the derived logger's prefix is the new name alone
newContextFlatPrefix(lg, context, bs) ==
    LET made == NewLogger(IF lg.otelBackend # NoBackend
                          THEN Config("", lg.serviceName, lg.environment)
                          ELSE NoConfig,
                          <<context>>, bs)
    IN  [made EXCEPT !.logger.otelBackend = lg.otelBackend,
                     !.logger.path = Append(lg.path, context)]

\* the derived logger keeps the backend its constructor built
newContextOwnBackend(lg, context, bs) ==
    LET newContextPrefix ==
            IF lg.contextPrefix # <<>>
            THEN lg.contextPrefix \o <<":", context>>
            ELSE <<context>>
        made == NewLogger(IF lg.otelBackend # NoBackend
                          THEN Config("", lg.serviceName, lg.environment)
                          ELSE NoConfig,
                          newContextPrefix, bs)
    IN  [made EXCEPT !.logger.path = Append(lg.path, context)]

\* the derived logger gets a copy of the parent's backend
newContextCopiesBackend(lg, context, bs) ==
    LET newContextPrefix ==
            IF lg.contextPrefix # <<>>
            THEN lg.contextPrefix \o <<":", context>>
            ELSE <<context>>
        made == NewLogger(IF lg.otelBackend # NoBackend
                          THEN Config("", lg.serviceName, lg.environment)
                          ELSE NoConfig,
                          newContextPrefix, bs)
    IN  IF lg.otelBackend = NoBackend
        THEN [made EXCEPT !.logger.path = Append(lg.path, context)]
        ELSE [made EXCEPT !.logger.path = Append(lg.path, context),
                          !.backends[Len(bs) + 1] = bs[lg.otelBackend]]

\* Logger.newContext of logger lg: the constructor runs with a configuration
\* whenever lg has a backend, and the backend it builds is then replaced by
\* lg's own
newContext(lg, context, bs) ==
    LET newContextPrefix ==
            IF lg.contextPrefix # <<>>
            THEN lg.contextPrefix \o <<":", context>>
            ELSE <<context>>
        made == NewLogger(IF lg.otelBackend # NoBackend
                          THEN Config("", lg.serviceName, lg.environment)
                          ELSE NoConfig,
                          newContextPrefix, bs)
    IN  [made EXCEPT !.logger.otelBackend = lg.otelBackend,
                     !.logger.path = Append(lg.path, context)]

\* ------------------------------------------------------------ ambient slot
\* the store is one slot for the whole process: the logger of the scope
\* entered last that is still running
getStoreProcessWide(s) ==
    IF \E t \in Tasks : pc[t] = "fn"
    THEN self[CHOOSE t \in Tasks :
                  pc[t] = "fn" /\ \A u \in Tasks : pc[u] = "fn" => u <= t]
    ELSE NoLogger

\* the slot is not emptied when run() is over: code outside every scope finds
\* the logger of a scope that has ended
getStoreKeepsLast(s) ==
    IF s # NoScope THEN self[s]
    ELSE IF \E t \in Tasks : pc[t] \notin {"idle", "fn"}
    THEN self[CHOOSE t \in Tasks : pc[t] \notin {"idle", "fn"}]
    ELSE NoLogger

\* loggerStore.getStore() called by s: AsyncLocalStorage gives the code that
\* loggerStore.run(this, fn) started, and whatever it awaits, the logger of
\* that call, and gives code outside every run() nothing
getStore(s) == IF s = NoScope THEN NoLogger ELSE self[s]

\* outside a scope the root logger is returned
getCurrentLoggerRootFallback(s, ls, bs, warned) ==
    LET logger == getStore(s)
    IN  [logger |-> IF logger = NoLogger THEN 1 ELSE logger,
         loggers |-> ls, backends |-> bs,
         lines |-> IF logger = NoLogger /\ ~warned THEN <<"warn">> ELSE <<>>,
         hasWarnedNoContext |-> warned \/ logger = NoLogger,
         warned |-> IF logger = NoLogger /\ ~warned THEN 1 ELSE 0,
         fresh |-> FALSE]

\* the flag is never set
getCurrentLoggerFlagNotSet(s, ls, bs, warned) ==
    LET logger == getStore(s)
        made == NewLogger(NoConfig, <<>>, bs)
    IN  IF logger = NoLogger
        THEN [logger |-> Len(ls) + 1,
              loggers |-> Append(ls, made.logger),
              backends |-> made.backends,
              lines |-> (IF ~warned THEN <<"warn">> ELSE <<>>) \o made.lines,
              hasWarnedNoContext |-> warned,
              warned |-> IF ~warned THEN 1 ELSE 0,
              fresh |-> TRUE]
        ELSE [logger |-> logger, loggers |-> ls, backends |-> bs,
              lines |-> <<>>, hasWarnedNoContext |-> warned, warned |-> 0,
              fresh |-> FALSE]

\* getCurrentLogger() called by s, the Logger instances being ls, the backends
\* bs and hasWarnedNoContext warned: the logger returned (its place in the
\* instances afterwards), the console lines written, the flag afterwards,
\* the warnings written (warned) and whether the logger is a new instance
getCurrentLogger(s, ls, bs, warned) ==
    LET logger == getStore(s)
        made == NewLogger(NoConfig, <<>>, bs)
    IN  IF logger = NoLogger
        THEN [logger |-> Len(ls) + 1,
              loggers |-> Append(ls, made.logger),
              backends |-> made.backends,
              lines |-> (IF ~warned THEN <<"warn">> ELSE <<>>) \o made.lines,
              hasWarnedNoContext |-> TRUE,
              warned |-> IF ~warned THEN 1 ELSE 0,
              fresh |-> TRUE]
        ELSE [logger |-> logger, loggers |-> ls, backends |-> bs,
              lines |-> <<>>, hasWarnedNoContext |-> warned, warned |-> 0,
              fresh |-> FALSE]

\* the context is derived from the root logger, not from the current one
createLoggerFromRoot(s, context, ls, bs, warned) ==
    LET cur == getCurrentLogger(s, ls, bs, warned)
        made == newContext(cur.loggers[1], context, cur.backends)
    IN  [logger |-> Len(cur.loggers) + 1,
         parent |-> cur.logger,
         loggers |-> Append(cur.loggers, made.logger),
         backends |-> made.backends,
         lines |-> cur.lines \o made.lines,
         hasWarnedNoContext |-> cur.hasWarnedNoContext,
         warned |-> cur.warned,
         fresh |-> cur.fresh]

\* createLogger(context) called by s: getCurrentLogger().newContext(context)
createLogger(s, context, ls, bs, warned) ==
    LET cur == getCurrentLogger(s, ls, bs, warned)
        made == newContext(cur.loggers[cur.logger], context, cur.backends)
    IN  [logger |-> Len(cur.loggers) + 1,
         parent |-> cur.logger,
         loggers |-> Append(cur.loggers, made.logger),
         backends |-> made.backends,
         lines |-> cur.lines \o made.lines,
         hasWarnedNoContext |-> cur.hasWarnedNoContext,
         warned |-> cur.warned,
         fresh |-> cur.fresh]

\* ------------------------------------------------------------------- Init
\* no getCurrentLogger()/createLogger() call has been made yet
NoCall == [kind |-> "none", by |-> NoScope, logger |-> NoLogger,
           parent |-> NoLogger, context |-> "", fresh |-> FALSE,
           during |-> {}, settled |-> {}]

Pending == [kind |-> "pending", value |-> NoError]

\* the state after `new Logger(config)`
InitWith(config) ==
    LET made == NewLogger(config, <<>>, <<>>)
    IN  /\ loggers = <<made.logger>>
        /\ backends = made.backends
        /\ console = made.lines
        /\ delivered = <<>>
        /\ calls = 0
        /\ overlapped = FALSE
        /\ pc = [t \in Tasks |-> "idle"]
        /\ self = [t \in Tasks |-> 1]
        /\ phase = [t \in Tasks |-> "none"]
        /\ fnError = [t \in Tasks |-> NoError]
        /\ caught = [t \in Tasks |-> NoError]
        /\ queue = [t \in Tasks |-> <<>>]
        /\ retries = [t \in Tasks |-> 0]
        /\ posts = [t \in Tasks |-> 0]
        /\ result = [t \in Tasks |-> "none"]
        /\ thrown = [t \in Tasks |-> NoError]
        /\ flushes = [t \in Tasks |-> 0]
        /\ outcome = [t \in Tasks |-> Pending]
        /\ hasWarnedNoContext = FALSE
        /\ warnings = 0
        /\ got = NoCall
        /\ outer = [t \in Tasks |-> NoScope]
        /\ hex = NoHex
        /\ timer = [t \in Tasks |-> 0]

Init == \E config \in RootConfigs : InitWith(config)

\* ---------------------------------------------------------- level methods
\* a caller: code outside every withLogger scope, or the fn of a task
Callers == {NoScope} \cup {t \in Tasks : pc[t] = "fn"}

\* debug / info / warn / error of logger l, called by s while Date.now()
\* reads EpochMs + dm, with the error value e (error() only) and the
\* attributes object the caller passes
LevelCall(l, level, message, e, attributes, dm, s) ==
    LET args == IF level = "ERROR" THEN ErrorAttributes(attributes, e)
                ELSE [errorAttributes |-> attributes, attributes |-> attributes]
    IN
    /\ calls < MaxCalls
    /\ l \in 1 .. Len(loggers)
    /\ s \in Callers
    /\ level # "ERROR" => e = NoError
    /\ backends' = LoggerRecord(backends, loggers[l], level, message,
                                args.errorAttributes, dm,
                                [id |-> calls + 1, scope |-> s, error |-> e,
                                 passed |-> attributes, kept |-> args.attributes])
    /\ console' = <<ConsoleMethod(level)>>
    /\ calls' = calls + 1
    /\ UNCHANGED <<loggers, delivered, overlapped, pc, self, phase, fnError,
                   caught, queue, retries, posts, result, thrown, flushes,
                   outcome>>
    /\ UNCHANGED ambient
    /\ UNCHANGED <<hex, timer>>

\* a level method called with the message alone
LevelMethod(l, level, message, dm, s) ==
    LevelCall(l, level, message, NoError, NoAttributes, dm, s)

debug(l, dm, s) == LevelMethod(l, "DEBUG", <<"msg">>, dm, s)

info(l, dm, s) == LevelMethod(l, "INFO", <<"msg">>, dm, s)

warn(l, dm, s) == LevelMethod(l, "WARN", <<"msg">>, dm, s)

error(l, dm, s) == LevelMethod(l, "ERROR", <<"msg">>, dm, s)

\* the attributes objects the callers of the level methods pass
CallerObjects ==
    {NoAttributes,
     <<<<"userId", JsString("123")>>, <<"count", JsNumber(42)>>>>,
     <<<<"errorName", JsString("mine")>>, <<"flag", JsBoolean(TRUE)>>>>,
     <<<<"user", JsObject(<<<<"id", JsNumber(7)>>,
                            <<"tags", JsArray(<<JsString("a"), JsString("b")>>)>>>>)>>,
       <<"none", JsNull>>,
       <<"missing", JsUndefined>>,
       <<"list", JsArray(<<JsNumber(1), JsNumber(2)>>)>>>>}

\* error(message, error, attributes) of logger l, error being e or left out
errorWith(l, e, attributes, dm, s) ==
    /\ attributes \in CallerObjects
    /\ LevelCall(l, "ERROR", <<"msg">>, e, attributes, dm, s)

\* debug/info/warn(message, attributes) of logger l
LogWith(l, level, attributes, dm, s) ==
    /\ level \in LogLevel \ {"ERROR"}
    /\ attributes \in CallerObjects
    /\ LevelCall(l, level, <<"msg">>, NoError, attributes, dm, s)

\* the attributes a direct caller of createLogRecord passes: none, the
\* tests' { key: 'value' }, or the initialization record's
\* { environment: this.environment }
CallerAttributes(b) ==
    {NoAttributes, <<<<"key", JsString("value")>>>>,
     <<<<"environment", JsString(b.environment)>>>>}

\* createLogRecord called on the transport of logger l itself, as the
\* logger's constructor of the other package variant does for the root span
\* (isParentSpan = true) and the tests do; nothing is written to the console
CreateLogRecord(l, level, attributes, isParentSpan, dm) ==
    /\ calls < MaxCalls
    /\ l \in 1 .. Len(loggers)
    /\ loggers[l].otelBackend # NoBackend
    /\ attributes \in CallerAttributes(backends[loggers[l].otelBackend])
    /\ backends' = [backends EXCEPT ![loggers[l].otelBackend] =
                       createLogRecord(@, level, <<"msg">>, attributes,
                                       isParentSpan, dm,
                                       [id |-> calls + 1, scope |-> NoScope,
                                        path |-> loggers[l].path,
                                        error |-> NoError,
                                        passed |-> attributes,
                                        kept |-> attributes])]
    /\ console' = <<>>
    /\ calls' = calls + 1
    /\ UNCHANGED <<loggers, delivered, overlapped, pc, self, phase, fnError,
                   caught, queue, retries, posts, result, thrown, flushes,
                   outcome>>
    /\ UNCHANGED ambient
    /\ UNCHANGED <<hex, timer>>

NewContext(l, context) ==
    /\ Len(loggers) < MaxLoggers
    /\ l \in 1 .. Len(loggers)
    /\ LET made == newContext(loggers[l], context, backends)
       IN  /\ loggers' = Append(loggers, made.logger)
           /\ backends' = made.backends
           /\ console' = made.lines
    /\ UNCHANGED <<delivered, calls, overlapped, pc, self, phase, fnError,
                   caught, queue, retries, posts, result, thrown, flushes,
                   outcome>>
    /\ UNCHANGED ambient
    /\ UNCHANGED <<hex, timer>>

\* the withLogger scopes whose fn is running (history kept with a call)
Running == {t \in Tasks : pc[t] = "fn"}

\* the withLogger() calls that have settled (history kept with a call)
Settled == {t \in Tasks : phase[t] \in {"try", "catch"} /\ pc[t] = "done"}

\* getCurrentLogger() called by s
GetCurrentLogger(s) ==
    LET r == getCurrentLogger(s, loggers, backends, hasWarnedNoContext)
    IN  /\ s \in Callers
        /\ Len(r.loggers) <= MaxLoggers
        /\ loggers' = r.loggers
        /\ backends' = r.backends
        /\ console' = r.lines
        /\ hasWarnedNoContext' = r.hasWarnedNoContext
        /\ warnings' = warnings + r.warned
        /\ got' = [kind |-> "getCurrentLogger", by |-> s, logger |-> r.logger,
                   parent |-> NoLogger, context |-> "", fresh |-> r.fresh,
                   during |-> Running, settled |-> Settled]
        /\ UNCHANGED <<delivered, calls, overlapped, pc, self, phase, fnError,
                       caught, queue, retries, posts, result, thrown, flushes,
                       outcome, outer, hex, timer>>

\* createLogger(context) called by s
CreateLogger(s, context) ==
    LET r == createLogger(s, context, loggers, backends, hasWarnedNoContext)
    IN  /\ s \in Callers
        /\ Len(r.loggers) <= MaxLoggers
        /\ loggers' = r.loggers
        /\ backends' = r.backends
        /\ console' = r.lines
        /\ hasWarnedNoContext' = r.hasWarnedNoContext
        /\ warnings' = warnings + r.warned
        /\ got' = [kind |-> "createLogger", by |-> s, logger |-> r.logger,
                   parent |-> r.parent, context |-> context, fresh |-> r.fresh,
                   during |-> Running, settled |-> Settled]
        /\ UNCHANGED <<delivered, calls, overlapped, pc, self, phase, fnError,
                       caught, queue, retries, posts, result, thrown, flushes,
                       outcome, outer, hex, timer>>

\* ---------------------------------------------------- identifier generators
\* the values of the random bytes tried: the longer the identifier, the
\* fewer; each set has a byte below 16 (one hex digit) and one above
ByteValues(length) ==
    IF length <= MaxHexLength THEN {0, 9, 10, 15, 16, 171, 255}
    ELSE IF length <= 16 THEN {0, 10, 255}
    ELSE {10, 255}

\* one of the generators is called: `new Uint8Array(Math.ceil(length / 2))`
CallGenerator(fn, length) ==
    /\ hex.returned
    /\ hex' = [fn |-> fn, length |-> length, bytes |-> <<>>, string |-> <<>>,
               returned |-> FALSE]
    /\ UNCHANGED <<loggers, backends, console, delivered, calls, overlapped,
                   pc, self, phase, fnError, caught, queue, retries, posts,
                   result, thrown, flushes, outcome, timer>>
    /\ UNCHANGED ambient

GenerateRandomHexString(length) ==
    CallGenerator("generateRandomHexString", length)

GenerateTraceId == CallGenerator("generateTraceId", 32)

GenerateSpanId == CallGenerator("generateSpanId", 16)

\* the next random byte is drawn (crypto.getRandomValues, or
\* Math.floor(Math.random() * 256))
DrawByte(byte) ==
    /\ ~hex.returned
    /\ Len(hex.bytes) < HalfCeil(hex.length)
    /\ byte \in ByteValues(hex.length)
    /\ hex' = [hex EXCEPT !.bytes = Append(@, byte)]
    /\ UNCHANGED <<loggers, backends, console, delivered, calls, overlapped,
                   pc, self, phase, fnError, caught, queue, retries, posts,
                   result, thrown, flushes, outcome, timer>>
    /\ UNCHANGED ambient

\* the bytes are encoded and the string is returned
ReturnHexString ==
    /\ ~hex.returned
    /\ Len(hex.bytes) = HalfCeil(hex.length)
    /\ hex' = [hex EXCEPT !.string = generateRandomHexString(hex.length, hex.bytes),
                          !.returned = TRUE]
    /\ UNCHANGED <<loggers, backends, console, delivered, calls, overlapped,
                   pc, self, phase, fnError, caught, queue, retries, posts,
                   result, thrown, flushes, outcome, timer>>
    /\ UNCHANGED ambient

\* ------------------------------------------------------------------ flush
\* a flush is in flight from taking its batch to its return
InFlight(t) == pc[t] \in {"fetch", "backoff"}

\* task t calls flush() on a logger whose backend is bi, the backends being bs
\* and the console lines of the step so far cons: OtelBackend.flush runs to
\* its first await
BeginFlush(t, bi, bs, cons) ==
    LET st == FlushStart(bs, bi)
    IN  /\ backends' = st.backends
        /\ console' = cons \o st.lines
        /\ pc' = [pc EXCEPT ![t] = st.pc]
        /\ queue' = [queue EXCEPT ![t] = st.queue]
        /\ retries' = [retries EXCEPT ![t] = 0]
        /\ posts' = [posts EXCEPT ![t] = st.fetch]
        /\ result' = [result EXCEPT ![t] = st.result]
        /\ thrown' = [thrown EXCEPT ![t] = NoError]
        /\ flushes' = [flushes EXCEPT ![t] = @ + 1]
        /\ overlapped' = (overlapped \/ \E u \in Tasks \ {t} : InFlight(u))

\* logger.flush() called directly
CallFlush(t, l) ==
    /\ pc[t] = "idle"
    /\ l \in 1 .. Len(loggers)
    /\ self' = [self EXCEPT ![t] = l]
    /\ phase' = [phase EXCEPT ![t] = "direct"]
    /\ BeginFlush(t, loggers[l].otelBackend, backends, <<>>)
    /\ UNCHANGED <<loggers, delivered, calls, fnError, caught, outcome>>
    /\ UNCHANGED ambient
    /\ UNCHANGED <<hex, timer>>

\* the backend a task's flush works on
BackendOf(t) == loggers[self[t]].otelBackend

\* the arguments of the fetch() a task at "fetch" is awaiting
Request(t) ==
    [url |-> backends[BackendOf(t)].endpoint,
     method |-> "POST",
     headers |-> backends[BackendOf(t)].headers,
     logRecords |-> queue[t]]

\* the awaited fetch resolves with a 2xx response: `success = true`, then
\* the loop condition
FetchOk(t) ==
    LET a == Attempt(backends[BackendOf(t)].endpoint)
        again == LoopContinues(TRUE, retries[t])
    IN
    /\ pc[t] = "fetch"
    /\ console' = <<"info">> \o (IF again THEN a.lines ELSE <<>>)
    /\ delivered' = Append(delivered, queue[t])
    /\ pc' = [pc EXCEPT ![t] = IF again THEN a.pc ELSE "returned"]
    /\ result' = [result EXCEPT ![t] = IF again THEN a.result ELSE "sent"]
    /\ posts' = [posts EXCEPT ![t] = IF again THEN @ + a.fetch ELSE @]
    /\ UNCHANGED <<loggers, backends, calls, overlapped, self, phase, fnError,
                   caught, queue, retries, thrown, flushes, outcome>>
    /\ UNCHANGED ambient
    /\ UNCHANGED <<hex, timer>>

\* the attempt failed: the catch block, and without a backoff the loop
\* condition and the next pass straight away
AttemptFailed(t) ==
    LET c == FlushCatch(backends[BackendOf(t)], queue[t], retries[t])
        a == Attempt(backends[BackendOf(t)].endpoint)
        again == ~c.wait /\ c.thrown = NoError /\ LoopContinues(FALSE, c.retries)
    IN  /\ pc[t] = "fetch"
        /\ backends' = [backends EXCEPT ![BackendOf(t)].logQueue = c.logQueue]
        /\ retries' = [retries EXCEPT ![t] = c.retries]
        /\ result' = [result EXCEPT ![t] = c.result]
        /\ thrown' = [thrown EXCEPT ![t] = c.thrown]
        /\ pc' = [pc EXCEPT ![t] = IF c.wait THEN "backoff"
                                   ELSE IF again THEN a.pc ELSE "returned"]
        /\ posts' = [posts EXCEPT ![t] = IF again THEN @ + a.fetch ELSE @]
        /\ console' = IF again THEN c.lines \o a.lines ELSE c.lines
        /\ timer' = [timer EXCEPT ![t] = IF c.wait THEN c.delay ELSE 0]
        /\ UNCHANGED <<loggers, delivered, calls, overlapped, self, phase,
                       fnError, caught, queue, flushes, outcome>>
        /\ UNCHANGED ambient
        /\ UNCHANGED hex

\* the awaited fetch resolves with a response whose ok is false
FetchNotOk(t) == AttemptFailed(t)

\* the awaited fetch rejects (network error)
FetchRejects(t) == AttemptFailed(t)

\* the backoff timer fires: the loop goes round
BackoffElapses(t) ==
    LET a == Attempt(backends[BackendOf(t)].endpoint)
    IN  /\ pc[t] = "backoff"
        /\ IF LoopContinues(FALSE, retries[t])
           THEN /\ pc' = [pc EXCEPT ![t] = a.pc]
                /\ posts' = [posts EXCEPT ![t] = @ + a.fetch]
                /\ console' = a.lines
           ELSE /\ pc' = [pc EXCEPT ![t] = "returned"]
                /\ console' = <<>>
                /\ UNCHANGED posts
        /\ UNCHANGED <<loggers, backends, delivered, calls, overlapped, self,
                       phase, fnError, caught, queue, retries, result, thrown,
                       flushes, outcome>>
        /\ timer' = [timer EXCEPT ![t] = 0]
        /\ UNCHANGED ambient
        /\ UNCHANGED hex

\* ------------------------------------------------------------- withLogger
\* logger.withLogger(fn): loggerStore.run(this, fn) starts fn
CallWithLogger(t, l) ==
    /\ pc[t] = "idle"
    /\ l \in 1 .. Len(loggers)
    /\ pc' = [pc EXCEPT ![t] = "fn"]
    /\ self' = [self EXCEPT ![t] = l]
    /\ phase' = [phase EXCEPT ![t] = "try"]
    /\ console' = <<>>
    /\ outer' = [outer EXCEPT ![t] = NoScope]
    /\ UNCHANGED <<loggers, backends, delivered, calls, overlapped, fnError,
                   caught, queue, retries, posts, result, thrown, flushes,
                   outcome>>
    /\ UNCHANGED <<hasWarnedNoContext, warnings, got>>
    /\ UNCHANGED <<hex, timer>>

\* logger.withLogger(fn) called by the fn of scope s: the scopes are nested
NestedWithLogger(s, t, l) ==
    /\ s \in Tasks \ {t}
    /\ pc[s] = "fn"
    /\ pc[t] = "idle"
    /\ l \in 1 .. Len(loggers)
    /\ pc' = [pc EXCEPT ![t] = "fn"]
    /\ self' = [self EXCEPT ![t] = l]
    /\ phase' = [phase EXCEPT ![t] = "try"]
    /\ console' = <<>>
    /\ outer' = [outer EXCEPT ![t] = s]
    /\ UNCHANGED <<loggers, backends, delivered, calls, overlapped, fnError,
                   caught, queue, retries, posts, result, thrown, flushes,
                   outcome>>
    /\ UNCHANGED <<hasWarnedNoContext, warnings, got>>
    /\ UNCHANGED <<hex, timer>>

\* the catch block flushes first and records the error afterwards
CatchBlockFlushFirst(t, e, dm) ==
    LET lg == loggers[self[t]]
        st == FlushStart(backends, lg.otelBackend)
    IN  /\ calls' = calls + 1
        /\ caught' = [caught EXCEPT ![t] = e]
        /\ phase' = [phase EXCEPT ![t] = "catch"]
        /\ backends' = LoggerRecord(st.backends, lg, "ERROR",
                                    <<"withLogger error - flushing">>,
                                    ErrorAttributes(NoAttributes, e).errorAttributes,
                                    dm,
                                    [id |-> calls + 1, scope |-> t, error |-> e,
                                     passed |-> NoAttributes,
                                     kept |-> NoAttributes])
        /\ console' = st.lines \o <<ConsoleMethod("ERROR")>>
        /\ pc' = [pc EXCEPT ![t] = st.pc]
        /\ queue' = [queue EXCEPT ![t] = st.queue]
        /\ retries' = [retries EXCEPT ![t] = 0]
        /\ posts' = [posts EXCEPT ![t] = st.fetch]
        /\ result' = [result EXCEPT ![t] = st.result]
        /\ thrown' = [thrown EXCEPT ![t] = NoError]
        /\ flushes' = [flushes EXCEPT ![t] = @ + 1]
        /\ overlapped' = (overlapped \/ \E u \in Tasks \ {t} : InFlight(u))

\* withLogger's catch block up to the await of its flush, the error caught
\* being e: this.error("withLogger error - flushing", error), this.flush()
CatchBlock(t, e, dm) ==
    LET lg == loggers[self[t]]
        bs == LoggerRecord(backends, lg, "ERROR",
                           <<"withLogger error - flushing">>,
                           ErrorAttributes(NoAttributes, e).errorAttributes,
                           dm,
                           [id |-> calls + 1, scope |-> t, error |-> e,
                            passed |-> NoAttributes, kept |-> NoAttributes])
    IN  /\ calls' = calls + 1
        /\ caught' = [caught EXCEPT ![t] = e]
        /\ phase' = [phase EXCEPT ![t] = "catch"]
        /\ BeginFlush(t, lg.otelBackend, bs, <<ConsoleMethod("ERROR")>>)

\* fn returns (or its promise resolves) and withLogger resumes after
\* `await Promise.resolve(loggerStore.run(this, fn))`: `await this.flush()`
FnReturns(t) ==
    /\ pc[t] = "fn"
    /\ BeginFlush(t, BackendOf(t), backends, <<>>)
    /\ UNCHANGED <<loggers, delivered, calls, self, phase, fnError, caught,
                   outcome>>
    /\ UNCHANGED ambient
    /\ UNCHANGED <<hex, timer>>

\* fn throws (or its promise rejects) with e: withLogger's catch block
FnRaises(t, e, dm) ==
    /\ pc[t] = "fn"
    /\ fnError' = [fnError EXCEPT ![t] = e]
    /\ CatchBlock(t, e, dm)
    /\ UNCHANGED <<loggers, delivered, self, outcome>>
    /\ UNCHANGED ambient
    /\ UNCHANGED <<hex, timer>>

\* the catch block does not throw the error again
SettlementResolves(ph, flushError, caughtError) ==
    IF flushError # NoError THEN [kind |-> "rejected", value |-> flushError]
    ELSE IF ph \in {"try", "catch"} THEN [kind |-> "resolved", value |-> "result"]
    ELSE [kind |-> "resolved", value |-> "undefined"]

\* what the promise of withLogger()/flush() settles with once the awaited
\* flush is over: `return result`, `throw error`, or the flush's own error
Settlement(ph, flushError, caughtError) ==
    IF flushError # NoError THEN [kind |-> "rejected", value |-> flushError]
    ELSE IF ph = "catch" THEN [kind |-> "rejected", value |-> caughtError]
    ELSE IF ph = "try" THEN [kind |-> "resolved", value |-> "result"]
    ELSE [kind |-> "resolved", value |-> "undefined"]

\* the caller of flush() resumes after `await this.flush()`; the locals of
\* the flush are gone
FlushReturns(t) ==
    /\ pc[t] = "returned"
    /\ IF phase[t] = "try" /\ thrown[t] # NoError
       THEN \* an error escaping the flush of the try block is caught as well
            /\ \E dm \in 0 .. MaxClockMs : CatchBlock(t, thrown[t], dm)
            /\ UNCHANGED outcome
       ELSE /\ pc' = [pc EXCEPT ![t] = "done"]
            /\ outcome' = [outcome EXCEPT ![t] =
                              Settlement(phase[t], thrown[t], caught[t])]
            /\ queue' = [queue EXCEPT ![t] = <<>>]
            /\ retries' = [retries EXCEPT ![t] = 0]
            /\ posts' = [posts EXCEPT ![t] = 0]
            /\ console' = <<>>
            /\ UNCHANGED <<backends, calls, overlapped, result, thrown,
                           flushes, caught, phase>>
    /\ UNCHANGED <<loggers, delivered, self, fnError>>
    /\ UNCHANGED ambient
    /\ UNCHANGED <<hex, timer>>

\* ------------------------------------------- the variant with a root span
\* The other variant of the package (part_000 with the transport of
\* part_002) differs in two places: the constructor of a root logger with a
\* transport enqueues a record for the root span, and flush() makes one
\* attempt and drops the batch when it fails. The level methods, newContext,
\* withLogger and createLogRecord read the same.

\* the attributes of the root span's record: { environment: this.environment }
RootSpanAttributes(environment) == <<<<"environment", JsString(environment)>>>>

\* the history kept with the root span's record: it comes from no level call
RootSpanTag(attributes) ==
    [id |-> 0, scope |-> NoScope, path |-> <<>>, error |-> NoError,
     passed |-> attributes, kept |-> attributes]

\* new Logger(config, contextPrefix) of the variant, Date.now() reading
\* EpochMs + dm
NewLoggerRootSpan(config, contextPrefix, bs, dm) ==
    LET made == NewLogger(config, contextPrefix, bs)
        attributes == RootSpanAttributes(config.environment)
    IN  IF config.given /\ contextPrefix = <<>>
        THEN [made EXCEPT !.backends[Len(bs) + 1] =
                  createLogRecord(@, "INFO",
                                  <<"Initialized logger for ", config.serviceName>>,
                                  attributes, TRUE, dm, RootSpanTag(attributes))]
        ELSE made

\* the prefix newContext computes; a context of "" under no prefix gives ""
NewContextPrefix(contextPrefix, context) ==
    IF contextPrefix # <<>> THEN contextPrefix \o <<":", context>>
    ELSE IF context = "" THEN <<>>
    ELSE <<context>>

\* the constructor's record for the root span goes to the shared transport
newContextRootSpanShared(lg, context, bs, dm) ==
    LET newContextPrefix == NewContextPrefix(lg.contextPrefix, context)
        made == NewLoggerRootSpan(IF lg.otelBackend # NoBackend
                                  THEN Config("", lg.serviceName, lg.environment)
                                  ELSE NoConfig,
                                  newContextPrefix, bs, dm)
        attributes == RootSpanAttributes(lg.environment)
    IN  IF lg.otelBackend # NoBackend /\ newContextPrefix = <<>>
        THEN [made EXCEPT !.logger.otelBackend = lg.otelBackend,
                          !.logger.path = Append(lg.path, context),
                          !.backends[lg.otelBackend] =
                              createLogRecord(@, "INFO",
                                  <<"Initialized logger for ", lg.serviceName>>,
                                  attributes, TRUE, dm, RootSpanTag(attributes))]
        ELSE [made EXCEPT !.logger.otelBackend = lg.otelBackend,
                          !.logger.path = Append(lg.path, context)]

\* Logger.newContext of the variant: the constructor runs first, on a
\* transport of its own, which is then replaced by lg's
newContextRootSpan(lg, context, bs, dm) ==
    LET newContextPrefix == NewContextPrefix(lg.contextPrefix, context)
        made == NewLoggerRootSpan(IF lg.otelBackend # NoBackend
                                  THEN Config("", lg.serviceName, lg.environment)
                                  ELSE NoConfig,
                                  newContextPrefix, bs, dm)
    IN  [made EXCEPT !.logger.otelBackend = lg.otelBackend,
                     !.logger.path = Append(lg.path, context)]

\* the state after `new Logger(config)` of the variant
InitRootSpan(config) ==
    LET made == NewLoggerRootSpan(config, <<>>, <<>>, 0)
    IN  /\ loggers = <<made.logger>>
        /\ backends = made.backends
        /\ console = made.lines
        /\ delivered = <<>>
        /\ calls = 0
        /\ overlapped = FALSE
        /\ pc = [t \in Tasks |-> "idle"]
        /\ self = [t \in Tasks |-> 1]
        /\ phase = [t \in Tasks |-> "none"]
        /\ fnError = [t \in Tasks |-> NoError]
        /\ caught = [t \in Tasks |-> NoError]
        /\ queue = [t \in Tasks |-> <<>>]
        /\ retries = [t \in Tasks |-> 0]
        /\ posts = [t \in Tasks |-> 0]
        /\ result = [t \in Tasks |-> "none"]
        /\ thrown = [t \in Tasks |-> NoError]
        /\ flushes = [t \in Tasks |-> 0]
        /\ outcome = [t \in Tasks |-> Pending]
        /\ hasWarnedNoContext = FALSE
        /\ warnings = 0
        /\ got = NoCall
        /\ outer = [t \in Tasks |-> NoScope]
        /\ hex = NoHex
        /\ timer = [t \in Tasks |-> 0]

\* the contexts given to newContext of the variant, the empty string included
RootSpanContexts == {"", "a"}

NewContextRootSpan(l, context, dm) ==
    /\ Len(loggers) < MaxLoggers
    /\ l \in 1 .. Len(loggers)
    /\ LET made == newContextRootSpan(loggers[l], context, backends, dm)
       IN  /\ loggers' = Append(loggers, made.logger)
           /\ backends' = made.backends
           /\ console' = made.lines
    /\ UNCHANGED <<delivered, calls, overlapped, pc, self, phase, fnError,
                   caught, queue, retries, posts, result, thrown, flushes,
                   outcome>>
    /\ UNCHANGED ambient
    /\ UNCHANGED <<hex, timer>>

\* OtelBackend.flush of the variant up to its await: no look at the
\* endpoint, one fetch
FlushStartSingleAttempt(bs, bi) ==
    IF bi = NoBackend
    THEN [backends |-> bs, pc |-> "returned", queue |-> <<>>,
          result |-> "noBackend", fetch |-> 0]
    ELSE IF Len(bs[bi].logQueue) = 0
    THEN [backends |-> bs, pc |-> "returned", queue |-> <<>>,
          result |-> "empty", fetch |-> 0]
    ELSE [backends |-> [bs EXCEPT ![bi].logQueue = <<>>],
          pc |-> "fetch", queue |-> bs[bi].logQueue,
          result |-> "pending", fetch |-> 1]

BeginFlushSingleAttempt(t, bi, bs, cons) ==
    LET st == FlushStartSingleAttempt(bs, bi)
    IN  /\ backends' = st.backends
        /\ console' = cons
        /\ pc' = [pc EXCEPT ![t] = st.pc]
        /\ queue' = [queue EXCEPT ![t] = st.queue]
        /\ retries' = [retries EXCEPT ![t] = 0]
        /\ posts' = [posts EXCEPT ![t] = st.fetch]
        /\ result' = [result EXCEPT ![t] = st.result]
        /\ thrown' = [thrown EXCEPT ![t] = NoError]
        /\ flushes' = [flushes EXCEPT ![t] = @ + 1]
        /\ overlapped' = (overlapped \/ \E u \in Tasks \ {t} : InFlight(u))

\* logger.flush() of the variant, called directly
CallFlushSingleAttempt(t, l) ==
    /\ pc[t] = "idle"
    /\ l \in 1 .. Len(loggers)
    /\ self' = [self EXCEPT ![t] = l]
    /\ phase' = [phase EXCEPT ![t] = "direct"]
    /\ BeginFlushSingleAttempt(t, loggers[l].otelBackend, backends, <<>>)
    /\ UNCHANGED <<loggers, delivered, calls, fnError, caught, outcome>>
    /\ UNCHANGED ambient
    /\ UNCHANGED <<hex, timer>>

\* the fetch of the variant's flush resolves with response.ok
FetchOkSingleAttempt(t) ==
    /\ pc[t] = "fetch"
    /\ console' = <<"info">>
    /\ delivered' = Append(delivered, queue[t])
    /\ pc' = [pc EXCEPT ![t] = "returned"]
    /\ result' = [result EXCEPT ![t] = "sent"]
    /\ UNCHANGED <<loggers, backends, calls, overlapped, self, phase, fnError,
                   caught, queue, retries, posts, thrown, flushes, outcome>>
    /\ UNCHANGED ambient
    /\ UNCHANGED <<hex, timer>>

\* it resolves with a response that is not ok, or rejects: an error line,
\* and the batch is gone
FetchFailsSingleAttempt(t) ==
    /\ pc[t] = "fetch"
    /\ console' = <<"error">>
    /\ pc' = [pc EXCEPT ![t] = "returned"]
    /\ result' = [result EXCEPT ![t] = "dropped"]
    /\ UNCHANGED <<loggers, backends, delivered, calls, overlapped, self,
                   phase, fnError, caught, queue, retries, posts, thrown,
                   flushes, outcome>>
    /\ UNCHANGED ambient
    /\ UNCHANGED <<hex, timer>>

\* withLogger of the variant: fn returns, `await this.flush()`
FnReturnsSingleAttempt(t) ==
    /\ pc[t] = "fn"
    /\ BeginFlushSingleAttempt(t, BackendOf(t), backends, <<>>)
    /\ UNCHANGED <<loggers, delivered, calls, self, phase, fnError, caught,
                   outcome>>
    /\ UNCHANGED ambient
    /\ UNCHANGED <<hex, timer>>

\* withLogger of the variant: fn throws e, the catch block records the error
\* and flushes
FnRaisesSingleAttempt(t, e, dm) ==
    LET lg == loggers[self[t]]
        bs == LoggerRecord(backends, lg, "ERROR",
                           <<"withLogger error - flushing">>,
                           ErrorAttributes(NoAttributes, e).errorAttributes,
                           dm,
                           [id |-> calls + 1, scope |-> t, error |-> e,
                            passed |-> NoAttributes, kept |-> NoAttributes])
    IN  /\ pc[t] = "fn"
        /\ fnError' = [fnError EXCEPT ![t] = e]
        /\ calls' = calls + 1
        /\ caught' = [caught EXCEPT ![t] = e]
        /\ phase' = [phase EXCEPT ![t] = "catch"]
        /\ BeginFlushSingleAttempt(t, lg.otelBackend, bs,
                                   <<ConsoleMethod("ERROR")>>)
        /\ UNCHANGED <<loggers, delivered, self, outcome>>
        /\ UNCHANGED ambient
        /\ UNCHANGED <<hex, timer>>

\* ------------------------------------------------------------------- Next
Next ==
    \/ \E l \in 1 .. MaxLoggers, dm \in 0 .. MaxClockMs, s \in {NoScope} \cup Tasks :
          \/ debug(l, dm, s)
          \/ info(l, dm, s)
          \/ warn(l, dm, s)
          \/ error(l, dm, s)
    \/ \E l \in 1 .. MaxLoggers, dm \in 0 .. MaxClockMs, s \in {NoScope} \cup Tasks,
            attributes \in CallerObjects :
          \/ \E e \in Errors \cup {NoError} : errorWith(l, e, attributes, dm, s)
          \/ \E level \in LogLevel : LogWith(l, level, attributes, dm, s)
    \/ \E l \in 1 .. MaxLoggers, level \in LogLevel, isParentSpan \in BOOLEAN,
            dm \in 0 .. MaxClockMs :
          \E attributes \in UNION {CallerAttributes(backends[b]) :
                                      b \in 1 .. Len(backends)} :
             CreateLogRecord(l, level, attributes, isParentSpan, dm)
    \/ \E l \in 1 .. MaxLoggers, context \in ContextNames : NewContext(l, context)
    \/ \E s \in {NoScope} \cup Tasks : GetCurrentLogger(s)
    \/ \E s \in {NoScope} \cup Tasks, context \in ContextNames :
          CreateLogger(s, context)
    \/ \E t \in Tasks, l \in 1 .. MaxLoggers : CallFlush(t, l)
    \/ \E t \in Tasks, l \in 1 .. MaxLoggers : CallWithLogger(t, l)
    \/ \E s \in Tasks, t \in Tasks, l \in 1 .. MaxLoggers :
          NestedWithLogger(s, t, l)
    \/ \E t \in Tasks : FnReturns(t)
    \/ \E t \in Tasks, e \in Errors, dm \in 0 .. MaxClockMs : FnRaises(t, e, dm)
    \/ \E t \in Tasks : FetchOk(t)
    \/ \E t \in Tasks : FetchNotOk(t)
    \/ \E t \in Tasks : FetchRejects(t)
    \/ \E t \in Tasks : BackoffElapses(t)
    \/ \E t \in Tasks : FlushReturns(t)
    \/ \E length \in 0 .. MaxHexLength : GenerateRandomHexString(length)
    \/ GenerateTraceId
    \/ GenerateSpanId
    \/ \E byte \in 0 .. 255 : DrawByte(byte)
    \/ ReturnHexString

Spec == Init /\ [][Next]_vars

(***************************************************************************)
(* Spec is the whole model.  The claims are checked on parts of it,        *)
(* each with every operation its claims are about and a narrower choice of *)
(* what the callers do otherwise:                                          *)
(*   SpecDelivery     a collector URL is configured; callers log through   *)
(*                    info() at one clock reading, an fn through the       *)
(*                    logger of its scope (getCurrentLogger); task t works *)
(*                    on logger t; flush() and withLogger() run and        *)
(*                    overlap freely;                                      *)
(*   SpecFlush        the same steps from every configuration;             *)
(*   SpecBackend      records built by calling the transport itself;       *)
(*   SpecHeaders      a collector URL with each of the callers' header     *)
(*                    sets; info(), newContext and flush() by one task;    *)
(*   SpecDerived      the same with newContext of any logger;              *)
(*   SpecInherit      every configuration; getCurrentLogger() and          *)
(*                    createLogger() outside every scope, newContext,      *)
(*                    info(), error() and flush() of any logger;           *)
(*   SpecRootSpan     the variant with a root span: a root logger with a   *)
(*                    collector URL, info(), error(), newContext (also     *)
(*                    with the empty context), flush() and withLogger();   *)
(*   SpecHex          the identifier generators alone, byte by byte;       *)
(*   SpecSettling     a collector URL; info() of the root logger and       *)
(*                    flush() calls whose every request settles in the end;*)
(*   SpecDown         a collector URL whose every request fails; info()   *)
(*                    of any logger at any clock reading, flush() calls   *)
(*                    of two tasks, one after the other or overlapping;   *)
(*   SpecAttributes   error() and info() of the root logger with each of   *)
(*                    the callers' attributes objects, and flush();        *)
(*   SpecNoCollector  no configuration, or the empty endpoint; all four    *)
(*                    level methods, flush() and withLogger(), with the    *)
(*                    same choice of loggers as in SpecDelivery;           *)
(*   SpecRecords      every configuration, all four level methods at every *)
(*                    clock reading, newContext, and flush() by one task;  *)
(*   SpecAmbient      every configuration; withLogger() scopes on any      *)
(*                    logger, with getCurrentLogger() and createLogger()   *)
(*                    called inside and outside of them;                   *)
(*   SpecScopes       every configuration; withLogger() scopes, side by    *)
(*                    side and one inside the other, and                   *)
(*                    getCurrentLogger() called anywhere.                  *)
(***************************************************************************)
Loggers == 1 .. MaxLoggers

FetchSettles(t) ==
    \/ FetchOk(t)
    \/ FetchNotOk(t)
    \/ FetchRejects(t)
    \/ BackoffElapses(t)

NextDelivery ==
    \/ info(1, 0, NoScope)
    \/ \E t \in Tasks : info(self[t], 0, t)
    \/ NewContext(1, "a")
    \/ \E t \in Tasks : CallFlush(t, IF t \in Loggers THEN t ELSE 1)
    \/ \E t \in Tasks : CallWithLogger(t, IF t \in Loggers THEN t ELSE 1)
    \/ \E t \in Tasks : FnReturns(t)
    \/ \E t \in Tasks, e \in Errors : FnRaises(t, e, 0)
    \/ \E t \in Tasks : FetchSettles(t)
    \/ \E t \in Tasks : FlushReturns(t)

SpecDelivery == InitWith(Config(Url, "svc", "prod")) /\ [][NextDelivery]_vars

SpecFlush == Init /\ [][NextDelivery]_vars

NextNoCollector ==
    \/ debug(1, 0, NoScope)
    \/ info(1, 0, NoScope)
    \/ warn(1, 0, NoScope)
    \/ error(1, 0, NoScope)
    \/ \E t \in Tasks :
          \/ debug(self[t], 0, t)
          \/ info(self[t], 0, t)
          \/ warn(self[t], 0, t)
          \/ error(self[t], 0, t)
    \/ NewContext(1, "a")
    \/ \E t \in Tasks : CallFlush(t, IF t \in Loggers THEN t ELSE 1)
    \/ \E t \in Tasks : CallWithLogger(t, IF t \in Loggers THEN t ELSE 1)
    \/ \E t \in Tasks : FnReturns(t)
    \/ \E t \in Tasks, e \in Errors : FnRaises(t, e, 0)
    \/ \E t \in Tasks : FlushReturns(t)

SpecNoCollector ==
    /\ InitWith(NoConfig) \/ InitWith(Config("", "svc", "prod"))
    /\ [][NextNoCollector]_vars

NextAmbient ==
    \/ NewContext(1, "a")
    \/ \E s \in {NoScope} \cup Tasks : GetCurrentLogger(s)
    \/ \E s \in {NoScope} \cup Tasks : CreateLogger(s, "b")
    \/ \E t \in Tasks, l \in Loggers : CallWithLogger(t, l)
    \/ \E t \in Tasks : FnReturns(t)
    \/ \E t \in Tasks : FlushReturns(t)

SpecAmbient == Init /\ [][NextAmbient]_vars

NextScopes ==
    \/ NewContext(1, "a")
    \/ \E s \in {NoScope} \cup Tasks : GetCurrentLogger(s)
    \/ \E t \in Tasks, l \in Loggers : CallWithLogger(t, l)
    \/ \E s \in Tasks, t \in Tasks, l \in Loggers : NestedWithLogger(s, t, l)
    \/ \E t \in Tasks : FnReturns(t)
    \/ \E t \in Tasks : FlushReturns(t)

SpecScopes == Init /\ [][NextScopes]_vars

NextRecords ==
    \/ \E l \in Loggers, dm \in 0 .. MaxClockMs :
          \/ debug(l, dm, NoScope)
          \/ info(l, dm, NoScope)
          \/ warn(l, dm, NoScope)
          \/ error(l, dm, NoScope)
    \/ \E l \in Loggers, context \in ContextNames : NewContext(l, context)
    \/ \E l \in Loggers : CallFlush(1, l)
    \/ FetchSettles(1)
    \/ FlushReturns(1)

SpecRecords == Init /\ [][NextRecords]_vars

NextBackend ==
    \/ \E level \in LogLevel, isParentSpan \in BOOLEAN :
          \E attributes \in UNION {CallerAttributes(backends[b]) :
                                      b \in 1 .. Len(backends)} :
             CreateLogRecord(1, level, attributes, isParentSpan, 0)
    \/ NewContext(1, "a")
    \/ \E l \in Loggers : CallFlush(1, l)
    \/ FetchSettles(1)
    \/ FlushReturns(1)

SpecBackend == Init /\ [][NextBackend]_vars

NextAttributes ==
    \/ \E attributes \in CallerObjects :
          \/ \E e \in Errors \cup {NoError} :
                errorWith(1, e, attributes, 0, NoScope)
          \/ LogWith(1, "INFO", attributes, 0, NoScope)
    \/ CallFlush(1, 1)
    \/ FetchSettles(1)
    \/ FlushReturns(1)

SpecAttributes == Init /\ [][NextAttributes]_vars

NextHex ==
    \/ \E length \in 0 .. MaxHexLength : GenerateRandomHexString(length)
    \/ GenerateTraceId
    \/ GenerateSpanId
    \/ \E byte \in 0 .. 255 : DrawByte(byte)
    \/ ReturnHexString

SpecHex == InitWith(NoConfig) /\ [][NextHex]_vars

InitHeaders ==
    \E headers \in CallerHeaders :
        InitWith(WithHeaders(Config(Url, "svc", "prod"), headers))

NextHeaders ==
    \/ \E l \in Loggers : info(l, 0, NoScope)
    \/ NewContext(1, "a")
    \/ \E l \in Loggers : CallFlush(1, l)
    \/ FetchSettles(1)
    \/ FlushReturns(1)

SpecHeaders == InitHeaders /\ [][NextHeaders]_vars

NextDerived ==
    \/ \E l \in Loggers : info(l, 0, NoScope)
    \/ \E l \in Loggers : NewContext(l, "a")
    \/ \E l \in Loggers : CallFlush(1, l)
    \/ FetchSettles(1)
    \/ FlushReturns(1)

SpecDerived == InitHeaders /\ [][NextDerived]_vars

NextRootSpan ==
    \/ \E l \in Loggers : info(l, 0, NoScope)
    \/ error(1, 0, NoScope)
    \/ info(self[2], 0, 2)
    \/ \E l \in Loggers, context \in RootSpanContexts :
          NewContextRootSpan(l, context, 0)
    \/ \E l \in Loggers : CallFlushSingleAttempt(1, l)
    \/ CallWithLogger(2, 1)
    \/ FnReturnsSingleAttempt(2)
    \/ FnRaisesSingleAttempt(2, "E1", 0)
    \/ \E t \in Tasks : FetchOkSingleAttempt(t)
    \/ \E t \in Tasks : FetchFailsSingleAttempt(t)
    \/ \E t \in Tasks : FlushReturns(t)

SpecRootSpan ==
    /\ InitRootSpan(Config(Url, "svc", "prod"))
    /\ [][NextRootSpan]_vars

NextInherit ==
    \/ GetCurrentLogger(NoScope)
    \/ CreateLogger(NoScope, "b")
    \/ \E l \in Loggers : NewContext(l, "a")
    \/ \E l \in Loggers : info(l, 0, NoScope)
    \/ \E l \in Loggers : error(l, 0, NoScope)
    \/ \E l \in Loggers : CallFlush(1, l)
    \/ FetchSettles(1)
    \/ FlushReturns(1)

SpecInherit == Init /\ [][NextInherit]_vars

\* the collector is down: no fetch ever resolves with a 2xx response
NextDown ==
    \/ \E l \in Loggers, dm \in 0 .. MaxClockMs : info(l, dm, NoScope)
    \/ NewContext(1, "a")
    \/ \E t \in Tasks, l \in Loggers : CallFlush(t, l)
    \/ \E t \in Tasks : FetchNotOk(t)
    \/ \E t \in Tasks : FetchRejects(t)
    \/ \E t \in Tasks : BackoffElapses(t)
    \/ \E t \in Tasks : FlushReturns(t)

SpecDown == InitWith(Config(Url, "svc", "prod")) /\ [][NextDown]_vars

NextSettling ==
    \/ \E dm \in 0 .. MaxClockMs : info(1, dm, NoScope)
    \/ \E t \in Tasks : CallFlush(t, 1)
    \/ \E t \in Tasks : FetchOk(t)
    \/ \E t \in Tasks : FetchNotOk(t)
    \/ \E t \in Tasks : FetchRejects(t)
    \/ \E t \in Tasks : BackoffElapses(t)
    \/ \E t \in Tasks : FlushReturns(t)

\* every fetch() that is awaited settles and every backoff timer fires
SpecSettling ==
    /\ InitWith(Config(Url, "svc", "prod"))
    /\ [][NextSettling]_vars
    /\ \A t \in Tasks : WF_vars(FetchSettles(t))

\* ------------------------------------------------------------------ claims
\* the ids of the records of a sequence, in its order
Ids(records) == [i \in 1 .. Len(records) |-> records[i].id]

RECURSIVE Flatten(_)
\* the records of a sequence of batches, in order
Flatten(batches) ==
    IF batches = <<>> THEN <<>> ELSE Head(batches) \o Flatten(Tail(batches))

\* the live queue of the tree's transport
LiveQueue == backends[loggers[1].otelBackend].logQueue

\* the batch of the flush in flight (there is one at most unless flushes
\* overlapped)
InFlightBatch ==
    IF \E u \in Tasks : InFlight(u)
    THEN queue[CHOOSE u \in Tasks : InFlight(u)]
    ELSE <<>>

\* C1: while every attempt fails, one flush() issues exactly 1 + maxRetries
\* POSTs (4 by default) and then stops: a flush never issues more, each pass
\* of the loop issues one, and a flush that is over without having sent its
\* batch has given up, has issued exactly 1 + maxRetries and has counted
\* maxRetries + 1 failures.
C1_PostsBounded ==
    \A t \in Tasks :
        /\ posts[t] <= 1 + maxRetries
        /\ pc[t] = "fetch" => posts[t] = retries[t] + 1
        /\ pc[t] = "backoff" => posts[t] = retries[t]
        /\ (pc[t] = "returned" /\ result[t] # "sent" /\ Len(queue[t]) > 0) =>
               /\ result[t] = "abandoned"
               /\ posts[t] = 1 + maxRetries
               /\ posts[t] = 4
               /\ retries[t] = maxRetries + 1

\* a flush has just given up after its fourth POST
C1_Witness ==
    \E t \in Tasks :
        pc[t] = "returned" /\ result[t] = "abandoned" /\ posts[t] = 4

\* task t's flush gives up in this step
Abandons(t) == result[t] = "pending" /\ result'[t] = "abandoned"

\* what C2 asks of every step
C2_Step ==
    /\ \A t \in Tasks :
          Abandons(t) =>
              /\ queue'[t] = queue[t]
              /\ LiveQueue' = queue[t] \o LiveQueue
              /\ ~overlapped =>
                    Ids(LiveQueue') = [i \in 1 .. Len(LiveQueue') |->
                                          queue[t][1].id + i - 1]
    /\ ~overlapped' =>
          Ids(Flatten(delivered') \o InFlightBatch' \o LiveQueue')
              = [i \in 1 .. calls' |-> i]

\* C2: when a flush gives up, the live queue becomes the undelivered batch,
\* unchanged and in its order, followed by the records enqueued while the
\* flush was in flight; and as long as flushes do not overlap, the records
\* delivered, then the batch in flight, then the live queue are all the
\* records in the order of their creation, so that the next successful flush
\* delivers the batch first and the later records after it.
C2_RequeuedInOrder == [][C2_Step]_vars

\* a flush has just given up and its batch stands in the live queue before a
\* record that was enqueued while it was in flight
C2_Witness ==
    \E t \in Tasks :
        /\ pc[t] = "returned" /\ result[t] = "abandoned" /\ ~overlapped
        /\ Len(queue[t]) > 0
        /\ Len(LiveQueue) > Len(queue[t])
        /\ SubSeq(LiveQueue, 1, Len(queue[t])) = queue[t]

\* the records of a sequence carry strictly increasing timestamps
TimestampsIncrease(records) ==
    \A i, j \in 1 .. Len(records) :
        i < j => NumLess(records[i].timestamp, records[j].timestamp)

\* C3: after n level calls on a logger with a transport and no flush in
\* between, the batch of the next successful flush holds exactly those
\* records, in the order of the calls, with strictly increasing timestamps.
C3_FirstBatch ==
    Len(delivered) > 0 =>
        /\ Ids(delivered[1]) = [i \in 1 .. Len(delivered[1]) |-> i]
        /\ TimestampsIncrease(delivered[1])

\* C4: the timestamps a transport assigns are strictly increasing in the
\* order of the calls, whatever the clock returns.
C4_StrictlyIncreasing ==
    \A b \in 1 .. Len(backends) : TimestampsIncrease(backends[b].logQueue)

\* task t's withLogger() settles in this step
Settles(t) ==
    /\ phase[t] \in {"try", "catch"}
    /\ outcome[t].kind = "pending"
    /\ outcome'[t].kind # "pending"

\* what C5 asks of every step
C5_Step ==
    \A t \in Tasks :
        Settles(t) =>
            \A u \in Tasks :
                InFlight(u)' =>
                    \A i \in 1 .. Len(queue'[u]) : queue'[u][i].scope # t

\* C5: when withLogger() settles, no record enqueued from within its scope is
\* still in the batch of an unfinished flush, whatever the interleaving.
C5_NoneInFlight == [][C5_Step]_vars

C7_FlushNeverRaises ==
    \A t \in Tasks :
        /\ thrown[t] = NoError
        /\ pc[t] = "done" =>
              /\ outcome[t].kind = "rejected" <=> fnError[t] # NoError
              /\ phase[t] = "direct" =>
                    outcome[t] = [kind |-> "resolved", value |-> "undefined"]
              /\ (phase[t] = "try" /\ fnError[t] = NoError) =>
                    outcome[t] = [kind |-> "resolved", value |-> "result"]

\* fn returned, the delivery was given up, and withLogger() resolved with
\* fn's result
C7_Witness ==
    \E t \in Tasks :
        /\ pc[t] = "done" /\ phase[t] = "try" /\ result[t] = "abandoned"
        /\ outcome[t] = [kind |-> "resolved", value |-> "result"]

\* no task has made a network call, none awaits one, nothing was delivered
NoNetworkCall ==
    /\ delivered = <<>>
    /\ \A t \in Tasks : posts[t] = 0 /\ ~InFlight(t)

\* the flush of task t finds no endpoint in this step
Skips(t) == result[t] # "skipped" /\ result'[t] = "skipped"

\* what C8 asks of every step
C8_Step ==
    /\ \A t \in Tasks :
          Skips(t) =>
              /\ Len(queue'[t]) > 0
              /\ SubSeq(queue'[t], 1, Len(LiveQueue)) = LiveQueue
              /\ LiveQueue' = <<>>
              /\ pc'[t] = "returned" /\ thrown'[t] = NoError
    /\ \A t \in Tasks :
          (BackendOf(t)' # NoBackend /\ backends'[BackendOf(t)'].endpoint = "") =>
              /\ ~InFlight(t)' /\ posts'[t] = 0 /\ delivered' = <<>>
              /\ flushes'[t] > 0 => result'[t] \in {"empty", "skipped"}
              /\ \A i \in 1 .. Len(queue'[t]), j \in 1 .. Len(LiveQueue') :
                    queue'[t][i].id # LiveQueue'[j].id
              /\ (pc'[t] = "done" /\ fnError'[t] = NoError) =>
                    outcome'[t].kind = "resolved"

\* C8: on a transport with an empty endpoint, a flush that finds records in
\* the queue resolves, makes no network call, and leaves the live queue
\* empty: the records of its batch are dropped.
C8_EmptyEndpointDrains == [][C8_Step]_vars

\* a flush has just dropped a batch of two records without a network call
C8_Witness ==
    \E t \in Tasks :
        /\ pc[t] = "returned" /\ result[t] = "skipped" /\ posts[t] = 0
        /\ Len(queue[t]) = 2
        /\ backends[BackendOf(t)].endpoint = ""
        /\ backends[BackendOf(t)].logQueue = <<>>

\* the root logger was constructed with a configuration
RootConfigured == loggers[1].serviceName # "console-logger"

C10_Step ==
    ~RootConfigured' =>
        /\ backends' = <<>>
        /\ \A l \in 1 .. Len(loggers') : loggers'[l].otelBackend = NoBackend
        /\ NoNetworkCall'
        /\ \A t \in Tasks :
              /\ queue'[t] = <<>>
              /\ flushes'[t] > 0 => result'[t] = "noBackend"
              /\ pc'[t] \in {"idle", "fn", "returned", "done"}
        /\ calls' # calls =>
              /\ Len(console') > 0
              /\ console'[1] \in ConsoleMethods

\* C10: a Logger constructed with no config has no transport: no backend is
\* ever constructed for it or for the loggers derived from it, so no record
\* is enqueued, flush() does nothing and no network call is made; and every
\* level method still writes its line to the console.
C10_NoTransport == [][C10_Step]_vars

\* a console-only logger has logged twice and its flush() has returned at
\* once
C10_Witness ==
    /\ ~RootConfigured
    /\ backends = <<>>
    /\ calls = 2
    /\ \E t \in Tasks :
          phase[t] = "direct" /\ pc[t] = "done" /\ result[t] = "noBackend"

RECURSIVE Join(_)
\* the names of a chain of contexts joined with ":", as a string in pieces
Join(names) ==
    IF names = <<>> THEN <<>>
    ELSE IF Len(names) = 1 THEN <<names[1]>>
    ELSE <<names[1], ":">> \o Join(Tail(names))

\* the records of a sequence, as a set
Range(records) == {records[i] : i \in 1 .. Len(records)}

\* every record that is in a queue, in a batch or delivered
AllRecords ==
    UNION {Range(backends[b].logQueue) : b \in 1 .. Len(backends)}
    \cup UNION {Range(queue[t]) : t \in Tasks}
    \cup Range(Flatten(delivered))

\* C11: the logger reached by newContext(n1)...newContext(nk) from the root
\* has the context path n1:...:nk, and every message logged through it is
\* prefixed with "[n1:...:nk] "; a logger with the empty path adds no prefix.
C11_ContextPath ==
    /\ \A l \in 1 .. Len(loggers) :
          loggers[l].contextPrefix = Join(loggers[l].path)
    /\ \A r \in AllRecords :
          r.body = IF r.path = <<>> THEN <<"msg">>
                   ELSE <<"[">> \o Join(r.path) \o <<"] ">> \o <<"msg">>

\* a record logged through root.newContext("a").newContext("b") was delivered
\* with the body "[a:b] msg", after one logged through the root
C11_Witness ==
    /\ Len(delivered) = 1
    /\ Len(delivered[1]) = 2
    /\ delivered[1][1].body = <<"msg">>
    /\ delivered[1][2].path = <<"a", "b">>
    /\ delivered[1][2].body = <<"[", "a", ":", "b", "] ", "msg">>

\* the root logger has a transport
RootHasTransport == loggers[1].otelBackend # NoBackend

\* C12: every logger derived from a root with a transport holds the root's
\* transport: the records logged through any of them are in the one shared
\* queue and carry the root's trace id, no other transport ever holds a
\* record, and with a collector configured a flush() on any of the loggers
\* takes them all, in the order of the calls.
C12_SharedTransport ==
    RootHasTransport =>
        /\ \A l \in 1 .. Len(loggers) :
              loggers[l].otelBackend = loggers[1].otelBackend
        /\ \A b \in 1 .. Len(backends) :
              b # loggers[1].otelBackend => backends[b].logQueue = <<>>
        /\ \A r \in AllRecords :
              r.traceId = backends[loggers[1].otelBackend].parentTraceId
        /\ backends[loggers[1].otelBackend].endpoint # "" =>
              Ids(Flatten(delivered) \o InFlightBatch \o LiveQueue)
                  = [i \in 1 .. calls |-> i]

\* a flush() called on a derived logger delivered a record logged through the
\* root and one logged through a derived logger, both with the root's trace id
C12_Witness ==
    /\ Len(delivered) = 1
    /\ Len(delivered[1]) = 2
    /\ self[1] # 1
    /\ delivered[1][1].path = <<>>
    /\ delivered[1][2].path # <<>>
    /\ delivered[1][2].traceId = backends[1].parentTraceId

\* C13 as stated: after any number of newContext calls, one transport (one
\* pair of root trace id and span id) has been constructed for the tree.
C13_OneConstructed == RootHasTransport => Len(backends) = 1

\* C13: every logger of a tree refers to the transport the root constructed.
\* Each newContext call constructs one more transport, with the empty
\* endpoint and identifiers of its own, which is replaced before the logger
\* is returned: it never holds a record, its timestamp state is never
\* touched and no flush works on it.
C13_OneInUse ==
    RootHasTransport =>
        /\ Len(backends) = Len(loggers)
        /\ \A l \in 1 .. Len(loggers) : loggers[l].otelBackend = 1
        /\ \A t \in Tasks : BackendOf(t) = 1
        /\ \A b \in 2 .. Len(backends) :
              /\ backends[b].endpoint = ""
              /\ backends[b].logQueue = <<>>
              /\ backends[b].lastTimestamp = Num(0, 0)
              /\ backends[b].parentTraceId = generateTraceId(b)

\* two newContext calls have constructed two more transports, and the root's
\* holds the records
C13_Witness ==
    /\ RootHasTransport
    /\ Len(loggers) = 3 /\ Len(backends) = 3
    /\ Len(backends[1].logQueue) = 2
    /\ backends[1].logQueue[2].path # <<>>

\* C14: when two withLogger scopes on different loggers run interleaved,
\* getCurrentLogger() and createLogger() called from the code of one scope
\* work on that scope's logger, never on the other's.
C14_ScopesIsolated ==
    got.by \in Tasks =>
        /\ got.kind = "getCurrentLogger" => got.logger = self[got.by]
        /\ got.kind = "createLogger" => got.parent = self[got.by]

\* scope 1 called getCurrentLogger() while scope 2, on another logger, was
\* running as well, and got its own logger
C14_Witness ==
    /\ got.kind = "getCurrentLogger" /\ got.by = 1
    /\ got.during = {1, 2}
    /\ self[1] # self[2]
    /\ got.logger = self[1]

\* a getCurrentLogger() call returns in this step
Gets == got' # got /\ got'.kind = "getCurrentLogger"

\* what C15 asks of every step
C15_Step ==
    Gets =>
        IF got'.by = NoScope
        THEN /\ Len(loggers') = Len(loggers) + 1
             /\ got'.logger = Len(loggers')
             /\ got'.fresh
             /\ loggers'[got'.logger].otelBackend = NoBackend
             /\ loggers'[got'.logger].contextPrefix = <<>>
             /\ backends' = backends
        ELSE /\ loggers' = loggers
             /\ ~got'.fresh
             /\ got'.logger = self[got'.by]
             /\ backends' = backends

\* C15: getCurrentLogger() called inside the withLogger scope of logger L
\* returns L itself; called outside every scope it returns a new Logger
\* without a transport, never one with a transport.
C15_CurrentOrFallback == [][C15_Step]_vars

\* outside every scope, while a scope of a logger with a transport is
\* running, getCurrentLogger() returned a new console-only logger
C15_Witness ==
    /\ got.kind = "getCurrentLogger" /\ got.by = NoScope
    /\ got.during # {}
    /\ RootHasTransport
    /\ got.fresh
    /\ loggers[got.logger].otelBackend = NoBackend

\* a call falls back to a new console-only logger in this step
FallsBack == got' # got /\ got'.fresh

\* what C16 asks of every step
C16_Step ==
    /\ warnings' <= 1
    /\ FallsBack =>
          /\ warnings' = 1
          /\ hasWarnedNoContext'
          /\ warnings = 0 => console'[1] = "warn"
    /\ ~FallsBack => warnings' = warnings
    /\ hasWarnedNoContext' <=> warnings' = 1

\* C16: whatever the sequence of getCurrentLogger()/createLogger() calls
\* outside and inside scopes, the 'No logger found' warning is written by the
\* first call that falls back and never again.
C16_WarnsOnce == [][C16_Step]_vars

\* two calls have fallen back and one warning has been written
C16_Witness ==
    /\ warnings = 1
    /\ RootHasTransport
    /\ Len(loggers) = 3
    /\ loggers[2].otelBackend = NoBackend /\ loggers[2].path = <<>>
    /\ loggers[3].otelBackend = NoBackend /\ loggers[3].path = <<>>

\* a createLogger() call returns in this step
Creates == got' # got /\ got'.kind = "createLogger"

\* what C17 asks of every step
C17_Step ==
    Creates =>
        LET made == loggers'[got'.logger]
        IN  IF got'.by = NoScope
            THEN /\ made.otelBackend = NoBackend
                 /\ made.contextPrefix = <<got'.context>>
                 /\ got'.fresh
            ELSE /\ made.otelBackend = loggers[self[got'.by]].otelBackend
                 /\ made.contextPrefix =
                        Join(Append(loggers[self[got'.by]].path, got'.context))
                 /\ made.serviceName = loggers[self[got'.by]].serviceName
                 /\ got'.parent = self[got'.by]

\* C17: createLogger(name) is getCurrentLogger().newContext(name): inside the
\* withLogger scope of L it returns a logger whose path is L's path extended
\* with name and which shares L's transport; outside every scope it returns a
\* console-only logger whose path is name.
C17_DerivesFromCurrent == [][C17_Step]_vars

\* inside the scope of root.newContext("a"), createLogger("b") returned a
\* logger with the path a:b on the root's transport
C17_Witness ==
    /\ got.kind = "createLogger" /\ got.by \in Tasks
    /\ RootHasTransport
    /\ loggers[got.logger].contextPrefix = <<"a", ":", "b">>
    /\ loggers[got.logger].otelBackend = loggers[1].otelBackend

\* the ids of the records created after every record of a batch
LaterThan(batch) ==
    {i \in 1 .. calls : \A j \in 1 .. Len(batch) : batch[j].id < i}

\* task t's flush stops awaiting in this step: it has delivered or given up
Returns(t) == InFlight(t) /\ ~InFlight(t)'

\* C18 as stated: a record enqueued while a flush is in flight is in the live
\* queue when that flush returns.
C18_StepAsStated ==
    \A t \in Tasks :
        Returns(t) =>
            \A i \in LaterThan(queue[t]) :
                \E j \in 1 .. Len(LiveQueue') : LiveQueue'[j].id = i

C18_InLiveQueueAtReturn == [][C18_StepAsStated]_vars

\* what C18 asks of every step
C18_Step ==
    /\ \A t \in Tasks :
          (InFlight(t) /\ InFlight(t)') => queue'[t] = queue[t]
    /\ \A t \in Tasks :
          (Returns(t) /\ ~overlapped) =>
              /\ LiveQueue' = (IF result'[t] = "abandoned" THEN queue[t]
                               ELSE <<>>) \o LiveQueue
              /\ {LiveQueue[j].id : j \in 1 .. Len(LiveQueue)}
                     = LaterThan(queue[t])
    /\ {r.id : r \in AllRecords'} = 1 .. calls'

\* C18: a record enqueued while a flush() awaits delivery or backoff is never
\* added to the batch in flight, and it is not lost.  Unless another flush()
\* has started in the meantime and taken it into its own batch, it is in the
\* live queue when the flush returns, after the batch if that was put back.
C18_EnqueuedInFlight == [][C18_Step]_vars

\* a flush awaits its backoff timer and a record enqueued meanwhile is in the
\* live queue, not in the batch
C18_Witness ==
    \E t \in Tasks :
        /\ pc[t] = "backoff" /\ ~overlapped
        /\ Len(LiveQueue) > 0
        /\ \A i \in 1 .. Len(queue[t]) : queue[t][i].id < LiveQueue[1].id

\* task t calls flush() in this step, directly or from withLogger
Starts(t) == flushes'[t] = flushes[t] + 1

\* what C19 asks of every step
C19_Step ==
    \A t \in Tasks :
        LET bi == loggers[self'[t]].otelBackend
        IN  /\ (Starts(t) /\ bi # NoBackend /\ phase'[t] # "catch"
                   /\ backends[bi].logQueue = <<>>) =>
                  result'[t] = "empty"
            /\ (Starts(t) /\ result'[t] = "empty") =>
                  /\ backends' = backends
                  /\ console' = <<>>
                  /\ delivered' = delivered
                  /\ posts'[t] = 0 /\ queue'[t] = <<>>
                  /\ pc'[t] = "returned" /\ thrown'[t] = NoError
            /\ (result'[t] = "empty" /\ pc'[t] = "done"
                   /\ fnError'[t] = NoError) =>
                  outcome'[t].kind = "resolved"

\* C19: flush() on a transport whose queue is empty succeeds and does
\* nothing: no network call, no console line, and the queue and lastTimestamp
\* as they were, whatever the endpoint.
C19_EmptyFlushNoOp == [][C19_Step]_vars

\* a flush() has found the queue of a transport with a collector empty, after
\* records were logged and delivered
C19_Witness ==
    \E t \in Tasks :
        /\ pc[t] = "returned" /\ result[t] = "empty"
        /\ RootHasTransport
        /\ backends[1].endpoint = Url
        /\ backends[1].lastTimestamp # Num(0, 0)
        /\ Len(delivered) > 0

\* the keys of the attributes of record r
Keys(r) == {r.attributes[i].key : i \in 1 .. Len(r.attributes)}

\* record r has an attribute key with the value stringValue
HasAttribute(r, key, stringValue) ==
    \E i \in 1 .. Len(r.attributes) :
        r.attributes[i] = Attribute(key, stringValue)

\* record r is as C20 says of a record built by transport b
Carries(r, b) ==
    /\ HasAttribute(r, "level", toLowerCase(r.severityText))
    /\ HasAttribute(r, "service.name", b.serviceName)
    /\ HasAttribute(r, "environment", b.environment)
    /\ r.traceId = b.parentTraceId
    /\ ~r.root => /\ HasAttribute(r, "parent.id", b.parentSpanId)
                  /\ r.spanId # b.parentSpanId
    /\ r.root => /\ "parent.id" \notin Keys(r)
                 /\ r.spanId = b.parentSpanId

\* C20: every record built by a transport carries the attributes level,
\* service.name and environment and the transport's trace id; every record
\* but a root-span one also carries parent.id equal to the transport's root
\* span id; a root-span record carries no parent.id and its span id is the
\* root span id.  (The callers here pass attributes under keys of their own,
\* as the callers in the source do; whatever they pass is appended as it is.)
C20_RecordAttributes ==
    /\ \A b \in 1 .. Len(backends) :
          \A r \in Range(backends[b].logQueue) : Carries(r, backends[b])
    /\ \A t \in Tasks :
          \A r \in Range(queue[t]) :
              Carries(r, backends[loggers[self[t]].otelBackend])
    /\ \A r \in Range(Flatten(delivered)) :
          \E b \in 1 .. Len(backends) : Carries(r, backends[b])

\* a root-span record and an ordinary one built by the same transport, both
\* delivered or waiting
C20_Witness ==
    \E r1, r2 \in AllRecords :
        /\ r1.root /\ ~r2.root
        /\ r1.traceId = r2.traceId
        /\ Len(r1.attributes) = 4 /\ Len(r2.attributes) = 5

\* the POST task t awaits carries Content-Type: application/json and every
\* header the caller configured
CarriesHeaders(t) ==
    LET sent == Request(t).headers
        given == backends[BackendOf(t)].configHeaders
    IN  /\ Request(t).method = "POST"
        /\ "Content-Type" \in DOMAIN sent
        /\ sent["Content-Type"] = "application/json"
        /\ \A k \in DOMAIN given : k \in DOMAIN sent /\ sent[k] = given[k]

\* C21: every outbound POST carries the header Content-Type:
\* application/json together with all the headers the caller configured,
\* whatever those are, a Content-Type of the caller's own included.
C21_ContentTypeJson == \A t \in Tasks : pc[t] = "fetch" => CarriesHeaders(t)

\* what does hold: the POSTs of a transport whose caller configured no
\* Content-Type, or application/json itself, are as C21 says
C21_OtherHeadersKept ==
    \A t \in Tasks :
        (pc[t] = "fetch"
            /\ Spread(ContentTypeJson, backends[BackendOf(t)].configHeaders)
                   ["Content-Type"] = "application/json") =>
            CarriesHeaders(t)

\* the severity numbers C22 gives
SeverityOf == [DEBUG |-> 5, INFO |-> 9, WARN |-> 13, ERROR |-> 17]

\* values that are no member of LogLevel
OtherLevels == {"TRACE", "FATAL", "info", ""}

\* what C22 asks of every step
C22_Step ==
    /\ \A level \in LogLevel :
          mapLogLevelToSeverityNumber(level) = SeverityOf[level]
    /\ \A other \in OtherLevels : mapLogLevelToSeverityNumber(other) = 9
    /\ \A r \in AllRecords' :
          /\ r.severityText \in LogLevel
          /\ r.severityNumber = SeverityOf[r.severityText]
          /\ (calls' = calls + 1 /\ r.id = calls') =>
                ConsoleMethod(r.severityText) = Head(console')

\* C22: the mapping is DEBUG -> 5, INFO -> 9, WARN -> 13, ERROR -> 17 and
\* anything else -> 9; the record a level method makes has the severityText
\* of that method's level (the method being the one that writes through the
\* console method of the same name) and the severityNumber of that level.
C22_SeverityMapping == [][C22_Step]_vars

\* a WARN record and an ERROR record have been made, one of them delivered
C22_Witness ==
    /\ \E r \in AllRecords : r.severityText = "WARN" /\ r.severityNumber = 13
    /\ \E r \in Range(Flatten(delivered)) :
          r.severityText = "ERROR" /\ r.severityNumber = 17

\* the characters 0-9a-f
LowerHex == {HexDigits[i] : i \in 1 .. Len(HexDigits)}

\* C23: generateTraceId() returns exactly 32 characters and generateSpanId()
\* exactly 16, generateRandomHexString(length) exactly length, odd lengths
\* too, every character one of 0-9a-f, whatever random bytes are drawn.
C23_HexLength ==
    (hex.fn # "none" /\ hex.returned) =>
        /\ Len(hex.string) = hex.length
        /\ \A i \in 1 .. Len(hex.string) : hex.string[i] \in LowerHex
        /\ hex.fn = "generateTraceId" => Len(hex.string) = 32
        /\ hex.fn = "generateSpanId" => Len(hex.string) = 16

\* a trace id has been returned whose bytes include one that needed padding
C23_Witness ==
    /\ hex.returned /\ hex.fn = "generateTraceId"
    /\ \E i \in 1 .. Len(hex.bytes) : hex.bytes[i] < 16
    /\ \E i \in 1 .. Len(hex.bytes) : hex.bytes[i] >= 16

\* a string of odd length, cut in the middle of its last byte, has been
\* returned
C23_OddLength ==
    /\ hex.returned /\ hex.fn = "generateRandomHexString"
    /\ hex.length = 3 /\ hex.bytes = <<171, 9>>
    /\ hex.string = <<"a", "b", "0">>

\* the console method C24 expects for each level
ConsoleOf == [DEBUG |-> "debug", INFO |-> "info", WARN |-> "warn",
              ERROR |-> "error"]

\* the step is a call of the level method of level on logger l
IsLevelCall(l, level) ==
    /\ calls' = calls + 1
    /\ \E dm \in 0 .. MaxClockMs : LevelMethod(l, level, <<"msg">>, dm, NoScope)

\* what C24 asks of every step
C24_Step ==
    \A l \in 1 .. Len(loggers), level \in LogLevel :
        IsLevelCall(l, level) =>
            LET bi == loggers[l].otelBackend
            IN  /\ console' = <<ConsoleOf[level]>>
                /\ bi = NoBackend => backends' = backends
                /\ bi # NoBackend =>
                      /\ Len(backends'[bi].logQueue) =
                             Len(backends[bi].logQueue) + 1
                      /\ SubSeq(backends'[bi].logQueue, 1,
                                Len(backends[bi].logQueue)) =
                             backends[bi].logQueue
                      /\ \A b \in 1 .. Len(backends) :
                            b # bi => backends'[b] = backends[b]
                /\ queue' = queue /\ delivered' = delivered /\ pc' = pc

\* C24: each call of debug/info/warn/error writes exactly one console line,
\* through the console method of its level, with or without a transport and
\* whatever the queue holds or a flush in flight is doing; with a transport
\* it also enqueues exactly one record.
C24_OneLineOneRecord == [][C24_Step]_vars

\* debug() has just been called while a flush was awaiting its fetch: one
\* line, and its record alone in the live queue
C24_Witness ==
    /\ console = <<"debug">>
    /\ pc[1] = "fetch"
    /\ RootHasTransport
    /\ Len(backends[1].logQueue) = 1
    /\ backends[1].logQueue[1].severityText = "DEBUG"
    /\ backends[1].logQueue[1].id = calls

\* the attributes of record r that follow the built-in ones
Custom(r) ==
    SubSeq(r.attributes, IF r.root THEN 4 ELSE 5, Len(r.attributes))

ErrorKeys == {"errorName", "errorMessage", "errorStack"}

\* the number of attributes of r under key
Count(r, key) ==
    Cardinality({i \in 1 .. Len(r.attributes) : r.attributes[i].key = key})

\* C25: error(message, error, attributes) adds errorName, errorMessage and
\* errorStack, taken from the error value, to the record's attributes exactly
\* when an error value is supplied; without one the record carries only the
\* caller's attributes; the caller's attributes object is not modified.
C25_ErrorAttributes ==
    \A r \in AllRecords :
        r.severityText = "ERROR" =>
            /\ r.kept = r.passed
            /\ r.error # NoError =>
                  /\ HasAttribute(r, "errorName", "Error")
                  /\ HasAttribute(r, "errorMessage", r.error \o " happened")
                  /\ HasAttribute(r, "errorStack",
                                  "Error: " \o r.error \o " happened at fn")
                  /\ \A key \in ErrorKeys : Count(r, key) = 1
                  /\ {Custom(r)[i].key : i \in 1 .. Len(Custom(r))} =
                        {r.passed[i][1] : i \in 1 .. Len(r.passed)} \cup ErrorKeys
                  /\ \A i \in 1 .. Len(r.passed) :
                        r.passed[i][1] \notin ErrorKeys =>
                            HasAttribute(r, r.passed[i][1], AttrValue(r.passed[i][2]))
            /\ r.error = NoError => Custom(r) = CustomAttributes(r.passed)

\* error() has been called with an error and attributes, and without an
\* error but with attributes that hold an errorName of the caller's own
C25_Witness ==
    \E r1, r2 \in AllRecords :
        /\ r1.severityText = "ERROR" /\ r1.error # NoError
        /\ r1.passed # NoAttributes
        /\ r2.severityText = "ERROR" /\ r2.error = NoError
        /\ \E i \in 1 .. Len(r2.passed) : r2.passed[i][1] = "errorName"

\* the string C27 expects for each value the callers pass
Expected(value) ==
    CASE value.type = "string" -> value.str
      [] value.type = "number" /\ value.n = 42 -> "42"
      [] value.type = "boolean" /\ value.b -> "true"
      [] value.type = "null" -> "null"
      [] value.type = "undefined" -> "undefined"
      [] value.type = "array" -> "[1,2]"
      [] value.type = "object" -> "{\"id\":7,\"tags\":[\"a\",\"b\"]}"

\* C27: every attribute value stored in a record is a string: the JSON
\* serialization of a value that is a non-null object, the string conversion
\* of any other; the custom attributes follow the built-in ones, in the key
\* order of the object createLogRecord was given.
C27_AttributeStrings ==
    \A r \in AllRecords :
        /\ Len(r.attributes) = (IF r.root THEN 3 ELSE 4) + Len(r.given)
        /\ Custom(r) = [i \in 1 .. Len(r.given) |->
                           Attribute(r.given[i][1], Expected(r.given[i][2]))]

\* a record made from an object, an array, null and undefined has been
\* delivered
C27_Witness ==
    \E r \in Range(Flatten(delivered)) :
        /\ HasAttribute(r, "user", "{\"id\":7,\"tags\":[\"a\",\"b\"]}")
        /\ HasAttribute(r, "none", "null")
        /\ HasAttribute(r, "missing", "undefined")
        /\ HasAttribute(r, "list", "[1,2]")

\* C26: getTraceId() and getSpanId() return the identifiers chosen when the
\* transport was constructed, whatever createLogRecord, flush (delivered,
\* retried or abandoned), newContext and withLogger calls have been made.
C26_IdentifiersFixed ==
    \A b \in 1 .. Len(backends) :
        /\ getTraceId(backends[b]) = generateTraceId(b)
        /\ getSpanId(backends[b]) = generateSpanId("backend", b)

\* one flush has been abandoned and a withLogger's flush has delivered, on a
\* transport shared with a derived logger
C26_Witness ==
    \E t, u \in Tasks :
        /\ result[t] = "abandoned" /\ result[u] = "sent"
        /\ phase[u] \in {"try", "catch"}
        /\ Len(loggers) > 1
        /\ loggers[2].otelBackend = 1
        /\ getSpanId(backends[1]) = generateSpanId("backend", 1)

\* the waits C28 gives for the defaults, by the number of the failed attempt
Delays == <<1000, 2000, 3000>>

\* what C28 asks of every step
C28_Step ==
    \A t \in Tasks :
        /\ retries'[t] = retries[t] + 1 =>
              /\ posts'[t] = posts[t]
              /\ IF retries'[t] <= maxRetries
                 THEN /\ pc'[t] = "backoff"
                      /\ timer'[t] = Delays[retries'[t]]
                      /\ timer'[t] = retryDelay * retries'[t]
                 ELSE /\ pc'[t] = "returned"
                      /\ timer'[t] = 0
                      /\ result'[t] = "abandoned"
        /\ (InFlight(t) /\ posts'[t] = posts[t] + 1) =>
              /\ pc[t] = "backoff"
              /\ timer[t] = Delays[retries[t]]
        /\ timer'[t] # 0 => pc'[t] = "backoff"

\* C28: after its k-th failed attempt, k <= maxRetries, a flush waits
\* retryDelay * k (1000, 2000, 3000 ms) and only then makes the next attempt;
\* after the failed attempt that exceeds maxRetries it waits nothing and
\* returns.
C28_LinearBackoff == [][C28_Step]_vars

\* a flush is waiting 3000 ms after its third failed attempt
C28_Witness ==
    \E t \in Tasks : pc[t] = "backoff" /\ retries[t] = 3 /\ timer[t] = 3000

\* the fetch task t awaits is answered with 2xx in this step
Got2xx(t) == pc[t] = "fetch" /\ delivered' = Append(delivered, queue[t])

\* what C29 asks of every step
C29_Step ==
    \A t \in Tasks :
        /\ Got2xx(t) =>
              /\ pc'[t] = "returned" /\ result'[t] = "sent"
              /\ posts'[t] = posts[t]
              /\ backends' = backends
        /\ (pc[t] = "returned" /\ result[t] = "sent") =>
              /\ posts'[t] <= posts[t]
              /\ pc'[t] # "fetch"
        /\ (InFlight(t) /\ \E r \in Range(queue[t]), q \in Range(LiveQueue') :
                               r.id = q.id) =>
              /\ pc[t] = "fetch"
              /\ retries'[t] = maxRetries + 1
              /\ result'[t] = "abandoned"
        /\ \A r \in Range(Flatten(delivered')), q \in Range(LiveQueue') :
              r.id # q.id

\* C29: when an attempt of a flush, the first or a retry, gets a 2xx
\* response, that flush issues no further POST, does not put the batch back
\* on the queue, and returns; a batch is put back only when the attempt that
\* exceeds maxRetries has failed.
C29_SuccessEndsFlush == [][C29_Step]_vars

\* a flush has returned after its third attempt was answered with 2xx
C29_Witness ==
    \E t \in Tasks :
        /\ pc[t] = "returned" /\ result[t] = "sent"
        /\ retries[t] = 2 /\ posts[t] = 3
        /\ Len(delivered) > 0

\* the fn of task t raises in this step
Raises(t) == pc[t] = "fn" /\ phase'[t] = "catch"

\* r is the record withLogger's catch block makes for the raised value e
IsErrorRecord(r, e) ==
    /\ r.severityText = "ERROR"
    /\ r.body[Len(r.body)] = "withLogger error - flushing"
    /\ HasAttribute(r, "errorName", "Error")
    /\ HasAttribute(r, "errorMessage", e \o " happened")
    /\ HasAttribute(r, "errorStack", "Error: " \o e \o " happened at fn")

\* what C30 asks of every step
C30_Step ==
    \A t \in Tasks :
        /\ Raises(t) =>
              /\ Starts(t)
              /\ pc'[t] = "fetch" /\ posts'[t] = 1
              /\ Len(queue'[t]) > 0
              /\ queue'[t][Len(queue'[t])].id = calls'
              /\ IsErrorRecord(queue'[t][Len(queue'[t])], fnError'[t])
              /\ outcome'[t] = Pending
        /\ (phase'[t] = "catch" /\ pc'[t] # "done") => outcome'[t] = Pending
        /\ (phase[t] = "catch" /\ outcome[t] = Pending /\ outcome'[t] # Pending) =>
              /\ pc[t] = "returned"
              /\ outcome'[t] = [kind |-> "rejected", value |-> fnError[t]]
        /\ (phase'[t] = "try" /\ Starts(t)) =>
              /\ pc[t] = "fn"
              /\ fnError'[t] = NoError
        /\ pc'[t] = "fn" => flushes'[t] = 0

\* C30: when fn fails, withLogger enqueues the error record ('withLogger
\* error - flushing', with errorName, errorMessage and errorStack) before its
\* flush starts, so that the record is in the batch that flush sends, and
\* raises the failure again only after that flush has returned; when fn
\* succeeds the flush starts only once fn has settled.
C30_ErrorRecordThenFlush == [][C30_Step]_vars

\* the flush of a catch block is awaiting its fetch, the error record last in
\* its batch after a record fn logged
C30_Witness ==
    \E t \in Tasks :
        /\ phase[t] = "catch" /\ pc[t] = "fetch"
        /\ Len(queue[t]) = 2
        /\ queue[t][1].scope = t
        /\ IsErrorRecord(queue[t][2], fnError[t])

\* the ids of the records in the batches of the flushes in flight
InFlightIds ==
    UNION {{queue[t][i].id : i \in 1 .. Len(queue[t])} :
              t \in {u \in Tasks : InFlight(u)}}

\* C31: with a collector that never answers 2xx no record is discarded:
\* nothing is ever delivered, every record enqueued so far is in the live
\* queue or in the batch of a flush in flight, and as long as flush() calls
\* come one after the other the batch in flight followed by the live queue is
\* every record in the order it was enqueued - so whenever no flush is in
\* flight the live queue holds all of them in that order and is as long as
\* the number of records enqueued, which never decreases.
C31_NothingDiscarded ==
    /\ delivered = <<>>
    /\ {LiveQueue[i].id : i \in 1 .. Len(LiveQueue)} \cup InFlightIds = 1 .. calls
    /\ ~overlapped =>
           Ids(InFlightBatch \o LiveQueue) = [i \in 1 .. calls |-> i]
    /\ (~overlapped /\ \A t \in Tasks : ~InFlight(t)) =>
           /\ Ids(LiveQueue) = [i \in 1 .. calls |-> i]
           /\ Len(LiveQueue) = calls

\* two flush() calls, one after the other, have both given up, and the live
\* queue holds both records enqueued, in order
C31_Witness ==
    /\ ~overlapped
    /\ \A t \in Tasks : pc[t] \in {"returned", "done"} /\ result[t] = "abandoned"
    /\ calls > 1
    /\ Ids(LiveQueue) = [i \in 1 .. calls |-> i]

\* C32: the ambient logger is installed for the duration of fn only. Code
\* outside every scope gets a fresh console-only logger from
\* getCurrentLogger() whatever withLogger() calls have settled before; the fn
\* of a scope gets the logger its own withLogger() was called on, be the
\* scope nested in another one (the inner logger is current in the inner fn)
\* or have scopes nested in it ended (the outer logger is current again).
C32_ScopeEnds ==
    got.kind = "getCurrentLogger" =>
        /\ got.by = NoScope =>
               /\ got.fresh
               /\ loggers[got.logger].otelBackend = NoBackend
               /\ \A t \in got.settled : got.logger # self[t]
        /\ \A t \in Tasks :
               got.by = t =>
                   /\ ~got.fresh
                   /\ got.logger = self[t]
                   /\ t \in got.during
                   /\ t \notin got.settled

\* the fn of an outer scope asked for the current logger after a scope on
\* another logger, nested in it, had settled, and got the outer logger
C32_Witness ==
    \E t, u \in Tasks :
        /\ got.kind = "getCurrentLogger" /\ got.by = t
        /\ outer[u] = t /\ u \in got.settled
        /\ self[u] # self[t]
        /\ got.logger = self[t]

\* the fn of a scope nested in a running one asked and got the inner logger
C32_Inner ==
    \E t, u \in Tasks :
        /\ got.kind = "getCurrentLogger" /\ got.by = u
        /\ outer[u] = t /\ got.during = {t, u}
        /\ self[u] # self[t]
        /\ got.logger = self[u]

\* code outside every scope asked after a withLogger() on a logger with a
\* transport had settled, and got a console-only logger
C32_AfterSettled ==
    /\ got.kind = "getCurrentLogger" /\ got.by = NoScope
    /\ \E t \in got.settled : loggers[self[t]].otelBackend # NoBackend
    /\ loggers[got.logger].otelBackend = NoBackend

\* the places of the live queues that hold the record with id i
InLiveQueue(i) ==
    {<<b, k>> \in (1 .. Len(backends)) \X (1 .. calls) :
        k <= Len(backends[b].logQueue) /\ backends[b].logQueue[k].id = i}

\* the places of the batches of the flushes in flight that hold it
InBatch(i) ==
    {<<t, k>> \in Tasks \X (1 .. calls) :
        InFlight(t) /\ k <= Len(queue[t]) /\ queue[t][k].id = i}

\* the places of the successful POSTs that hold it
InDelivered(i) ==
    {<<d, k>> \in (1 .. Len(delivered)) \X (1 .. calls) :
        k <= Len(delivered[d]) /\ delivered[d][k].id = i}

\* C33: with a collector configured and flush() calls overlapping freely,
\* every record enqueued is in exactly one place at all times: one place of
\* one live queue, or one place of the batch of one flush in flight, or one
\* place of one successful POST. None is lost, none is in two batches or in
\* two successful POSTs.
C33_ExactlyOnePlace ==
    \A i \in 1 .. calls :
        Cardinality(InLiveQueue(i)) + Cardinality(InBatch(i))
            + Cardinality(InDelivered(i)) = 1

\* two flushes are in flight at once, each with a batch of its own, after
\* one of them has failed an attempt
C33_Witness ==
    /\ overlapped
    /\ \A t \in Tasks : InFlight(t) /\ Len(queue[t]) > 0
    /\ \E t \in Tasks : retries[t] > 0

\* the records of a sequence are in the order of their creation, and no
\* timestamp is smaller than an earlier one
CreationOrder(records) ==
    \A i, j \in 1 .. Len(records) :
        i < j => /\ records[i].id < records[j].id
                 /\ NumLeq(records[i].timestamp, records[j].timestamp)

\* C34: when flush() calls on a transport do not overlap, the live queue is
\* ordered by strictly increasing timestamp in every reachable state, also
\* after an abandoned batch has been put back, and so are the records of the
\* successful batches taken one after the other.
C34_QueueOrdered ==
    ~overlapped =>
        /\ \A b \in 1 .. Len(backends) : TimestampsIncrease(backends[b].logQueue)
        /\ TimestampsIncrease(Flatten(delivered))

\* what does hold without overlap: the live queue and the successful
\* batches are in creation order and their timestamps never go back
C34_NeverGoesBack ==
    ~overlapped =>
        /\ \A b \in 1 .. Len(backends) : CreationOrder(backends[b].logQueue)
        /\ CreationOrder(Flatten(delivered))

\* a batch was put back in front of a record enqueued while it was in flight
C34_PutBack ==
    /\ ~overlapped
    /\ \E t \in Tasks : pc[t] = "returned" /\ result[t] = "abandoned"
                          /\ 0 < Len(queue[t])
                          /\ \E b \in 1 .. Len(backends) :
                                 Len(queue[t]) < Len(backends[b].logQueue)

\* what C35 asks of every step
C35_Step ==
    \A t \in Tasks :
        /\ posts'[t] <= 1 + maxRetries
        /\ (pc[t] # "backoff" /\ pc'[t] = "backoff") =>
               /\ retries'[t] = retries[t] + 1
               /\ retries'[t] <= maxRetries
               /\ timer'[t] > 0
        /\ InFlight(t) => retries'[t] >= retries[t]
        /\ (InFlight(t) /\ pc'[t] = "returned") =>
               retries'[t] <= maxRetries + 1

\* C35: provided every request settles (and every backoff timer fires),
\* every flush() that is in flight returns in the end; on the way it issues
\* at most 1 + maxRetries POSTs, each backoff wait begins with the retry
\* counter one higher than before and at most maxRetries, so that there are
\* at most maxRetries waits, and the counter never goes down.
C35_FlushReturns ==
    /\ [][C35_Step]_vars
    /\ \A t \in Tasks : InFlight(t) ~> pc[t] = "returned"

\* a flush has returned after its last attempt, the one after maxRetries
\* backoff waits, was answered with 2xx
C35_Witness ==
    \E t \in Tasks :
        pc[t] = "returned" /\ result[t] = "sent" /\ retries[t] = maxRetries

\* the logger came from newContext
Derived(l) == loggers[l].path # <<>>

\* C36: a flush() called on a logger that newContext derived posts to the
\* endpoint the root logger was configured with, with the root's headers:
\* the request of every such flush goes to the root's transport, whose
\* endpoint and headers are those built from the root's configuration, and
\* no such flush takes the path of the empty endpoint; the transports built
\* from the empty endpoint and headers that newContext passes never hold a
\* record.
C36_DerivedUsesRoot ==
    /\ \A t \in Tasks :
           (Derived(self[t]) /\ pc[t] \notin {"idle", "done"}) =>
               /\ BackendOf(t) = loggers[1].otelBackend
               /\ result[t] # "skipped"
               /\ pc[t] = "fetch" =>
                      /\ Request(t).url = Url
                      /\ Request(t).headers =
                             Spread(ContentTypeJson,
                                    backends[BackendOf(t)].configHeaders)
                      /\ backends[BackendOf(t)].configHeaders \in CallerHeaders
    /\ \A b \in 1 .. Len(backends) :
           b # loggers[1].otelBackend =>
               /\ backends[b].endpoint = ""
               /\ backends[b].logQueue = <<>>
               /\ \A l \in 1 .. Len(loggers) : loggers[l].otelBackend # b

\* the flush() of a logger derived from a derived one awaits a POST that
\* carries the root's Authorization header
C36_Witness ==
    \E t \in Tasks :
        /\ Len(loggers[self[t]].path) > 1
        /\ pc[t] = "fetch" /\ Len(queue[t]) > 0
        /\ "Authorization" \in DOMAIN Request(t).headers
        /\ Request(t).url = Url

\* logger l has no transport
ConsoleOnly(l) == loggers[l].otelBackend = NoBackend

\* what C37 asks of every step
C37_Step ==
    /\ \A l \in 1 .. Len(loggers), context \in ContextNames :
           (ConsoleOnly(l) /\ NewContext(l, context)) =>
               /\ loggers'[Len(loggers')].otelBackend = NoBackend
               /\ loggers'[Len(loggers')].path = Append(loggers[l].path, context)
               /\ backends' = backends
    /\ (got' # got /\ got'.by = NoScope) =>
           /\ got'.fresh
           /\ \A l \in Len(loggers) + 1 .. Len(loggers') :
                  loggers'[l].otelBackend = NoBackend
           /\ backends' = backends
    /\ \A l \in 1 .. Len(loggers), level \in LogLevel, dm \in 0 .. MaxClockMs :
           (ConsoleOnly(l) /\ LevelMethod(l, level, <<"msg">>, dm, NoScope)) =>
               /\ backends' = backends
               /\ console' = <<ConsoleMethod(level)>>
    /\ \A t \in Tasks, l \in 1 .. Len(loggers) :
           (ConsoleOnly(l) /\ CallFlush(t, l)) =>
               /\ pc'[t] = "returned" /\ result'[t] = "noBackend"
               /\ posts'[t] = 0 /\ queue'[t] = <<>>
               /\ backends' = backends /\ delivered' = delivered
    /\ \A t \in Tasks :
           (pc'[t] # "idle" /\ ConsoleOnly(self[t])') =>
               /\ pc'[t] \notin {"fetch", "backoff"}
               /\ posts'[t] = 0

\* C37: being console-only is inherited. newContext of a logger without a
\* transport gives a logger without a transport and builds none; so do
\* getCurrentLogger() and createLogger() outside every scope (the fallback
\* and the logger derived from it); a level method of a logger without a
\* transport writes its console line and enqueues nothing, and its flush()
\* returns at once without a network call.
C37_ConsoleOnlyInherited == [][C37_Step]_vars

\* in a program whose root logger has a transport, a logger derived from
\* the fallback has logged and been flushed: nothing was enqueued or sent
C37_Witness ==
    \E t \in Tasks :
        /\ loggers[1].otelBackend # NoBackend
        /\ got.kind = "createLogger" /\ got.by = NoScope
        /\ self[t] = got.logger
        /\ loggers[self[t]].otelBackend = NoBackend
        /\ loggers[self[t]].path = <<"b">>
        /\ pc[t] = "returned" /\ result[t] = "noBackend"
        /\ calls > 0
        /\ \A b \in 1 .. Len(backends) : backends[b].logQueue = <<>>
        /\ delivered = <<>>

\* a logger two newContext calls away from a root without a transport has
\* been flushed
C37_Chain ==
    \E t \in Tasks :
        /\ Len(loggers[self[t]].path) > 1
        /\ loggers[self[t]].otelBackend = NoBackend
        /\ pc[t] = "returned" /\ result[t] = "noBackend"
        /\ calls > 0 /\ backends = <<>>

\* the transport of the root logger
RootTransport == backends[loggers[1].otelBackend]

\* a record is a root-span record when it carries no parent.id
IsRootSpan(r) == "parent.id" \notin Keys(r)

\* record r is the record the constructor enqueues for the root span
IsInitialRecord(r) ==
    /\ IsRootSpan(r)
    /\ r.severityText = "INFO"
    /\ r.spanId = getSpanId(RootTransport)
    /\ r.traceId = getTraceId(RootTransport)
    /\ r.body = <<"Initialized logger for ", RootTransport.serviceName>>

\* the sequences that hold records of the root's transport: its live queue,
\* the batches of the flushes awaiting their fetch, the successful POSTs
RootSequences ==
    {RootTransport.logQueue}
        \cup {queue[t] : t \in {u \in Tasks : pc[u] = "fetch"}}
        \cup {delivered[d] : d \in 1 .. Len(delivered)}

\* the root-span records among them, each with the sequence that holds it
RootSpans ==
    {<<q, k>> \in RootSequences \X (1 .. calls + 1) :
        k <= Len(q) /\ IsRootSpan(q[k])}

\* what C38 asks of every step
C38_Step ==
    /\ \A k \in 1 .. Len(RootTransport.logQueue') :
           IsRootSpan(RootTransport.logQueue'[k]) =>
               /\ k <= Len(RootTransport.logQueue)
               /\ RootTransport.logQueue[k] = RootTransport.logQueue'[k]
    /\ Cardinality(RootSpans') <= 1
    /\ \A p \in RootSpans' : p[2] = 1 /\ IsInitialRecord(p[1][1])'
    /\ \A q \in RootSequences' :
           \A k \in 1 .. Len(q) :
               ~IsRootSpan(q[k]) =>
                   /\ HasAttribute(q[k], "parent.id", getSpanId(RootTransport'))
                   /\ q[k].id > 0

\* C38: in the variant that records the root span, the transport of a root
\* logger constructed with a configuration holds one record after
\* construction, the root span's: INFO, with the root span id as its span
\* id and without parent.id. No later step - a level method, newContext
\* (also with the empty context), withLogger, flush - adds a record without
\* parent.id to that transport: there is never more than one among its
\* live queue, its batches in flight and its successful POSTs, it is the
\* first record of the sequence that holds it, and every other record
\* carries parent.id equal to the root span id.
C38_RootSpanOnce ==
    /\ Len(RootTransport.logQueue) = 1
    /\ IsInitialRecord(RootTransport.logQueue[1])
    /\ [][C38_Step]_vars

\* after newContext with the empty context, the first successful POST held
\* the root span's record first and a record with parent.id behind it
C38_Witness ==
    /\ \E l \in 1 .. Len(loggers) : loggers[l].path = <<"">>
    /\ Len(delivered) > 0
    /\ Len(delivered[1]) > 1
    /\ IsInitialRecord(delivered[1][1])
    /\ HasAttribute(delivered[1][2], "parent.id", getSpanId(RootTransport))

====
